---- MODULE Spec2Model ----
(***************************************************************************)
(* Model of vm_simulation.py: a cluster of VirtualMachine objects, each    *)
(* with an Event Loop thread (run), a Listener thread (server_loop), the   *)
(* orchestrating main thread that calls stop, and external clients that    *)
(* write raw payloads to a VM's listening port.                            *)
(***************************************************************************)
EXTENDS Integers, Sequences, FiniteSets, TLC

\* ------------------------------------------------------------------ bounds
\* ticks of all Event Loops, payloads of external clients and calls of stop,
\* taken together
MaxActivity == 3
\* payloads written by external clients
MaxExt == 1
\* calls of stop made by the main thread
MaxStopCalls == 2

\* ------------------------------------------------------- program parameters
\* num_vms of start_virtual_machines
NumVMs == 2
\* internal_prob = 0.7 = ProbNum / ProbDen
ProbNum == 7
ProbDen == 10

VMs == 0 .. (NumVMs - 1)

None == "None"

Max(a, b) == IF a >= b THEN a ELSE b

\* ---------------------------------------------------------- wire encoding
\* A payload is a sequence of characters.
Digits == <<"0", "1", "2", "3", "4", "5", "6", "7", "8", "9">>

IsDigit(ch) == \E k \in 1..10 : Digits[k] = ch

DigitVal(ch) == (CHOOSE k \in 1..10 : Digits[k] = ch) - 1

IsSpace(ch) == ch \in {" ", "\n", "\t"}

\* str(n) for n >= 0
RECURSIVE StrNat(_)
StrNat(n) == IF n < 10 THEN <<Digits[n + 1]>>
             ELSE StrNat(n \div 10) \o <<Digits[(n % 10) + 1]>>

\* str(timestamp).encode()
Str(n) == IF n < 0 THEN <<"-">> \o StrNat(0 - n) ELSE StrNat(n)

\* str.strip(): int() ignores surrounding whitespace
RECURSIVE Strip(_)
Strip(s) == IF s = <<>> THEN s
            ELSE IF IsSpace(Head(s)) THEN Strip(Tail(s))
            ELSE IF IsSpace(s[Len(s)]) THEN Strip(SubSeq(s, 1, Len(s) - 1))
            ELSE s

\* the digit part of an int literal: digits, single underscores between them
RECURSIVE WellFormedDigits(_, _)
WellFormedDigits(s, afterDigit) ==
    IF s = <<>> THEN afterDigit
    ELSE IF IsDigit(Head(s)) THEN WellFormedDigits(Tail(s), TRUE)
    ELSE IF Head(s) = "_" THEN afterDigit /\ WellFormedDigits(Tail(s), FALSE)
    ELSE FALSE

RECURSIVE DigitsValue(_, _)
DigitsValue(s, acc) ==
    IF s = <<>> THEN acc
    ELSE IF Head(s) = "_" THEN DigitsValue(Tail(s), acc)
    ELSE DigitsValue(Tail(s), 10 * acc + DigitVal(Head(s)))

\* ParseInt, were an unparsable payload taken for 0
ParseInt_lenient(data) ==
    LET s == Strip(data)
        signed == s # <<>> /\ Head(s) \in {"+", "-"}
        body == IF signed THEN Tail(s) ELSE s
    IN IF WellFormedDigits(body, FALSE)
       THEN [ok |-> TRUE,
             val |-> IF signed /\ Head(s) = "-" THEN 0 - DigitsValue(body, 0)
                     ELSE DigitsValue(body, 0)]
       ELSE [ok |-> TRUE, val |-> 0]

\* int(data.decode()): [ok |-> FALSE] stands for ValueError
ParseInt(data) ==
    LET s == Strip(data)
        signed == s # <<>> /\ Head(s) \in {"+", "-"}
        body == IF signed THEN Tail(s) ELSE s
    IN IF WellFormedDigits(body, FALSE)
       THEN [ok |-> TRUE,
             val |-> IF signed /\ Head(s) = "-" THEN 0 - DigitsValue(body, 0)
                     ELSE DigitsValue(body, 0)]
       ELSE [ok |-> FALSE, val |-> 0]

\* payloads an external client writes (test_server_receives_message writes
\* b"7"): a timestamp, a negative number, a malformed payload, nothing
ExtPayloads == { <<"7">>, <<"-", "2">>, <<"x">>, <<>> }

\* ------------------------------------------------------------------- state
VARIABLES
    logical_clock,      \* self.logical_clock of each VM
    running,            \* self.running
    queue,              \* self.queue: FIFO of received timestamps
    peers,              \* self.peers
    server_socket,      \* self.server_socket: closed flag and accept backlog
    log_file,           \* self.log_file: flushed lines, write buffer, closed flag
    log_lock,           \* self.log_lock: the thread holding it, or None
    pc,                 \* position of the Event Loop thread (run)
    call,               \* arguments of the log_event call in progress
    todo,               \* peers the current send event has still to send to
    final,              \* the log_event call that ends the current send event
    current_timestamp,  \* local current_timestamp of run
    spc,                \* position of the Listener thread (server_loop)
    conn,               \* the connection server_loop has accepted
    mpc,                \* position of the main thread inside stop
    mvm,                \* the VM the main thread is stopping (0 outside stop)
    raised,             \* an exception escaped from stop into the main thread
    nticks,             \* history: ticks each Event Loop has begun
    events,             \* history: the events of each Event Loop, in order
    stops,              \* history: completed stop calls per VM
    stop_calls,         \* history: calls the main thread has begun (stop,
                        \* and send_message where the main thread calls it)
    ext_sent,           \* history: payloads written by external clients
    draw,               \* a draw of run by itself: p_internal, r, the branch
    late,               \* history: ticks each Event Loop has begun while
                        \* running was False (-1 where it is not recorded)
    sims,               \* run_scale_model: the run_simulation threads of main
    cwd                 \* run_scale_model: the files of the working directory

vars == <<logical_clock, running, queue, peers, server_socket, log_file,
          log_lock, pc, call, todo, final, current_timestamp, spc, conn,
          mpc, mvm, raised, nticks, events, stops, stop_calls, ext_sent,
          draw, late, sims, cwd>>

run_vars == <<pc, call, todo, final, current_timestamp>>
hist_vars == <<nticks, events>>
main_vars == <<mpc, mvm, raised, stops, stop_calls>>
scale_vars == <<sims, cwd>>

NoCall == [event_type |-> None, details |-> <<>>]

\* an id no VM is constructed with (test_send_message_error sends to 999)
AbsentVM == NumVMs

\* history: the origin of a payload written by an external client
ExtClient == NumVMs + 1

NoCause == [vm |-> ExtClient, tick |-> 0, timestamp |-> 0]

NoLate == [i \in VMs |-> -1]
NoDraw == [p |-> ProbNum, r |-> 0, outcome |-> None]
NoMessage == [data |-> <<>>, cause |-> NoCause, client |-> "sends"]

\* peers = [j for j in range(num_vms) if j != i]
RECURSIVE OthersFrom(_, _)
OthersFrom(i, j) == IF j >= NumVMs THEN <<>>
                    ELSE IF j = i THEN OthersFrom(i, j + 1)
                    ELSE <<j>> \o OthersFrom(i, j + 1)

AllOthers(i) == OthersFrom(i, 0)

RECURSIVE SumTo(_, _)
SumTo(f, n) == IF n < 0 THEN 0 ELSE f[n] + SumTo(f, n - 1)

TotalTicks == SumTo(nticks, NumVMs - 1)

\* what the bounds count
Activity == TotalTicks + ext_sent + stop_calls

\* run_scale_model.main: the run_simulation threads it starts (5 in the
\* source), with run ids from 1
num_runs == 2
Runs == 1 .. num_runs

\* run_simulation: base_port = 5100 + (run_id * 100)
base_port(run_id) == 5100 + run_id * 100

\* A path is the directory (0: the working directory, r: run_<r>), and the
\* vm id and the base port in the file name (0: the name has no base port).
\* VirtualMachine.__init__: the name in open(f"vm_{vm_id}.log", "w")
LogName(vm_id, bp) == [dir |-> 0, id |-> vm_id, bp |-> 0]

\* run_simulation: log_filename = f"vm_{vm_id}_{base_port}.log"
log_filename(vm_id, bp) == [dir |-> 0, id |-> vm_id, bp |-> bp]

\* run_simulation: os.path.join(dir_name, log_filename)
InDir(run_id, path) == [path EXCEPT !.dir = run_id]

\* the files, by path: of a file, the VMs, as <<run_id, vm_id>>, that have
\* written to it since it was created or truncated.  At first there is none.
NoFiles == [p \in {} |-> {}]

\* open(path, "w"): the file created, or truncated
Truncated(files, path) ==
    [q \in (DOMAIN files) \cup {path} |->
        IF q = path THEN {} ELSE files[q]]

\* os.rename(from, to)
Renamed(files, from, to) ==
    [q \in ((DOMAIN files) \ {from}) \cup {to} |->
        IF q = to THEN files[from] ELSE files[q]]

\* before main: no thread started, no VM constructed
NoSims == [r \in Runs |-> [pc |-> "new", vms |-> <<>>, k |-> 0]]

\* VirtualMachine.__init__ for every VM, then the threads started.  VM 0 is
\* constructed with a peer list of 0, 1 or 2 entries (the tests construct VMs
\* with peers=[]), the first of two being a peer that is absent; the other
\* VMs get all other ids, as start_virtual_machines does.
InitVM ==
    /\ logical_clock = [i \in VMs |-> 0]
    /\ running = [i \in VMs |-> TRUE]
    /\ queue = [i \in VMs |-> <<>>]
    /\ \E k \in 0 .. 2 :
          peers = [i \in VMs |-> IF i = 0
                                 THEN IF k = 2
                                      THEN <<AbsentVM>> \o AllOthers(i)
                                      ELSE SubSeq(AllOthers(i), 1, k)
                                 ELSE AllOthers(i)]
    /\ server_socket = [i \in VMs |-> [closed |-> FALSE, backlog |-> <<>>,
                                        held |-> FALSE]]
    /\ log_file = [i \in VMs |-> [lines |-> <<>>, buf |-> <<>>, closed |-> FALSE]]
    /\ log_lock = [i \in VMs |-> None]
    /\ pc = [i \in VMs |-> "sleep"]
    /\ call = [i \in VMs |-> NoCall]
    /\ todo = [i \in VMs |-> <<>>]
    /\ final = [i \in VMs |-> NoCall]
    /\ current_timestamp = [i \in VMs |-> 0]
    /\ spc = [i \in VMs |-> "accept"]
    /\ conn = [i \in VMs |-> NoMessage]
    /\ mpc = "idle"
    /\ mvm = 0
    /\ raised = FALSE
    /\ nticks = [i \in VMs |-> 0]
    /\ events = [i \in VMs |-> <<>>]
    /\ stops = [i \in VMs |-> 0]
    /\ stop_calls = 0
    /\ ext_sent = 0
    /\ sims = NoSims
    /\ cwd = NoFiles

Init == InitVM /\ draw = NoDraw /\ late = NoLate

\* ---------------------------------------------------------------- log file
\* FileWrite, were the line lost without an error
FileWrite_drop(f, line) == [file |-> f, exc |-> FALSE]

\* file.write(line): ValueError on a closed file
FileWrite(f, line) ==
    IF f.closed THEN [file |-> f, exc |-> TRUE]
    ELSE [file |-> [f EXCEPT !.buf = Append(@, line)], exc |-> FALSE]

\* file.flush(): ValueError on a closed file
FileFlush(f) ==
    IF f.closed THEN [file |-> f, exc |-> TRUE]
    ELSE [file |-> [f EXCEPT !.lines = @ \o f.buf, !.buf = <<>>], exc |-> FALSE]

\* FileClose, were closing a closed file an error
FileClose_strict(f) ==
    IF f.closed THEN [file |-> f, exc |-> TRUE]
    ELSE [file |-> [lines |-> f.lines \o f.buf, buf |-> <<>>, closed |-> TRUE],
          exc |-> FALSE]

\* file.close(): flushes and closes; a no-op on a closed file
FileClose(f) ==
    IF f.closed THEN [file |-> f, exc |-> FALSE]
    ELSE [file |-> [lines |-> f.lines \o f.buf, buf |-> <<>>, closed |-> TRUE],
          exc |-> FALSE]

\* socket.close(): pending connections are dropped; a no-op on a closed socket
SocketClose(s) ==
    IF s.closed THEN [sock |-> s, exc |-> FALSE]
    ELSE [sock |-> [closed |-> TRUE, backlog |-> <<>>, held |-> FALSE],
          exc |-> FALSE]

\* close() while another thread is inside accept() on the socket releases the
\* descriptor only: the call in progress keeps the listening socket, its port
\* and its pending connections until it returns
SocketCloseHeld(s) ==
    [sock |-> [closed |-> TRUE, backlog |-> s.backlog, held |-> TRUE],
     exc |-> FALSE]

\* the accept() in progress returns: the socket it kept is released
SocketRelease(s) ==
    IF s.held THEN [closed |-> TRUE, backlog |-> <<>>, held |-> FALSE] ELSE s

\* whether the Listener is inside accept() when stop closes the socket: it
\* may be, when it is at that point of its loop
HeldChoices(i) ==
    IF spc[i] = "accept" /\ ~server_socket[i].closed
    THEN BOOLEAN
    ELSE {FALSE}

\* LogEntry, were the queue length taken before the tick popped its message
LogEntry_qbefore(i, c) ==
    [event_type |-> c.event_type,
     logical_clock |-> logical_clock[i],
     queue_length |-> Len(queue[i]) + 1,
     details |-> c.details,
     tick |-> nticks[i]]

\* LogEntry, were the clock of before the event's increment logged
LogEntry_before(i, c) ==
    [event_type |-> c.event_type,
     logical_clock |-> logical_clock[i] - 1,
     queue_length |-> Len(queue[i]),
     details |-> c.details,
     tick |-> nticks[i]]

\* the line log_event formats (the elapsed-time field is left out); tick is
\* history: the tick of the Event Loop the line is written in
LogEntry(i, c) ==
    [event_type |-> c.event_type,
     logical_clock |-> logical_clock[i],
     queue_length |-> Len(queue[i]),
     details |-> c.details,
     tick |-> nticks[i]]

\* ExceptPass, were log_event written without its try/except
ExceptPass_missing == FALSE

\* log_event: except Exception: pass
ExceptPass == TRUE

\* AfterLog, were the event's own log_event call skipped after a failed send
AfterLog_skipfinal(i) ==
    IF call[i].event_type = "Send Error" /\ todo[i] # <<>>
    THEN "send"
    ELSE IF running[i] THEN "sleep" ELSE "done"

\* AfterLog, were the loop of run without its condition
AfterLog_norecheck(i) ==
    IF call[i].event_type = "Send Error"
    THEN IF todo[i] = <<>> THEN "log_enter" ELSE "send"
    ELSE "sleep"

\* where the Event Loop goes on when log_event returns: back into the send
\* event after a Send Error, else to the loop condition while self.running,
\* which leads into the next sleep or out of the loop
AfterLog(i) ==
    IF call[i].event_type = "Send Error"
    THEN IF todo[i] = <<>> THEN "log_enter" ELSE "send"
    ELSE IF running[i] THEN "sleep" ELSE "done"

Return(i) ==
    /\ pc' = [pc EXCEPT ![i] = AfterLog(i)]
    /\ call' = [call EXCEPT ![i] =
                  IF AfterLog(i) = "log_enter" THEN final[i] ELSE NoCall]
    /\ final' = [final EXCEPT ![i] = IF AfterLog(i) = "send" THEN @ ELSE NoCall]
    /\ current_timestamp' = [current_timestamp EXCEPT ![i] =
                                IF AfterLog(i) = "send" THEN @ ELSE 0]
    /\ UNCHANGED todo

\* an exception leaves log_event and ends the thread
Crash(i) ==
    /\ pc' = [pc EXCEPT ![i] = "crashed"]
    /\ UNCHANGED <<call, todo, final, current_timestamp>>

\* LockFree, were log_event written without its lock
LockFree_always(i) == TRUE

\* with self.log_lock: the calling thread goes on when no thread holds the lock
LockFree(i) == log_lock[i] = None

\* log_event: with self.log_lock / if self.log_file.closed: return
LogEnter(i) ==
    /\ pc[i] = "log_enter"
    /\ LockFree(i)
    /\ IF log_file[i].closed
       THEN Return(i) /\ UNCHANGED log_lock
       ELSE /\ log_lock' = [log_lock EXCEPT ![i] = "run"]
            /\ pc' = [pc EXCEPT ![i] = "log_write"]
            /\ UNCHANGED <<call, todo, final, current_timestamp>>
    /\ UNCHANGED <<logical_clock, running, queue, peers, draw, late,
                   server_socket, log_file, spc, conn, hist_vars, main_vars,
                   ext_sent, scale_vars>>

\* log_event: qsize, format, self.log_file.write, self.log_file.flush; an
\* exception of either is swallowed; the lock is released
LogWrite(i) ==
    /\ pc[i] = "log_write"
    /\ LET w == FileWrite(log_file[i], LogEntry(i, call[i]))
           f == IF w.exc THEN w ELSE FileFlush(w.file)
       IN /\ log_file' = [log_file EXCEPT ![i] = f.file]
          /\ IF f.exc /\ ~ExceptPass THEN Crash(i) ELSE Return(i)
    /\ log_lock' = [log_lock EXCEPT ![i] = None]
    /\ UNCHANGED <<logical_clock, running, queue, peers, draw, late,
                   server_socket, spc, conn, hist_vars, main_vars, ext_sent,
                   scale_vars>>

\* --------------------------------------------------------------- Event Loop
\* process_message, were a timestamp not above the clock ignored altogether
process_message_stale(clock, received_timestamp) ==
    IF received_timestamp > clock THEN received_timestamp + 1 ELSE clock

\* process_message, were the max with the own clock forgotten
process_message_nomax(clock, received_timestamp) ==
    received_timestamp + 1

\* process_message, were the increment forgotten
process_message_noinc(clock, received_timestamp) ==
    Max(clock, received_timestamp)

\* process_message, were the received timestamp ignored
process_message_ignore(clock, received_timestamp) ==
    clock + 1

\* process_message: the Lamport receive rule
process_message(clock, received_timestamp) ==
    Max(clock, received_timestamp) + 1

\* Select, were the Internal branch taken up to and including its threshold
Select_le(r, p) ==
    IF r <= 3 * p THEN "internal"
    ELSE IF r < 3 * p + (ProbDen - p) THEN "peer0"
    ELSE IF r < 3 * p + 2 * (ProbDen - p) THEN "peer1"
    ELSE "all"

\* the if/elif chain of run, in exact arithmetic with the denominator
\* 3 * ProbDen: the draw is r / (3 * ProbDen), p_internal = p / ProbDen, and
\* p_send_each = (1 - p_internal) / 3 = (ProbDen - p) / (3 * ProbDen)
Select(r, p) ==
    IF r < 3 * p THEN "internal"
    ELSE IF r < 3 * p + (ProbDen - p) THEN "peer0"
    ELSE IF r < 3 * p + 2 * (ProbDen - p) THEN "peer1"
    ELSE "all"

\* the branch of run selected by the draw r = n / ProbDen, with
\* p_internal = ProbNum / ProbDen and p_send_each = (1 - p_internal) / 3
Outcome(n) == Select(3 * n, ProbNum)

\* LocalClock, were the clock incremented once per peer of a Send All (as the
\* send_message of main.py increments it on every send)
LocalClock_perpeer(clock, o, ps) ==
    IF o = "all" THEN clock + Len(ps) ELSE clock + 1

\* LocalClock, were the single-peer branches without their else (as in the
\* superseded revision of run, where a branch without its peer does nothing)
LocalClock_nofallback(clock, o, ps) ==
    IF (o = "peer0" /\ Len(ps) < 1) \/ (o = "peer1" /\ Len(ps) < 2)
    THEN clock
    ELSE clock + 1

\* self.logical_clock += 1 of the selected branch
LocalClock(clock, o, ps) == clock + 1

\* Targets, were the second-peer branch guarded by len(self.peers) >= 1 and
\* sending to the last peer there is
Targets_offbyone(o, ps) ==
    IF o = "peer0" /\ Len(ps) >= 1 THEN <<ps[1]>>
    ELSE IF o = "peer1" /\ Len(ps) >= 1 THEN <<ps[Len(ps)]>>
    ELSE IF o = "all" THEN ps
    ELSE <<>>

\* the peers the selected branch sends to
Targets(o, ps) ==
    IF o = "peer0" /\ Len(ps) >= 1 THEN <<ps[1]>>
    ELSE IF o = "peer1" /\ Len(ps) >= 2 THEN <<ps[2]>>
    ELSE IF o = "all" THEN ps
    ELSE <<>>

\* EventCall, were a Send All without peers taken for a fallback
EventCall_guarded(o, ps) ==
    IF o = "internal"
    THEN [event_type |-> "Internal", details |-> <<"No external communication">>]
    ELSE IF o = "peer0" /\ Len(ps) >= 1
    THEN [event_type |-> "Send", details |-> <<"To VM", ps[1]>>]
    ELSE IF o = "peer1" /\ Len(ps) >= 2
    THEN [event_type |-> "Send", details |-> <<"To VM", ps[2]>>]
    ELSE IF o = "all" /\ Len(ps) >= 1
    THEN [event_type |-> "Send All", details |-> <<"To VMs", ps>>]
    ELSE [event_type |-> "Internal", details |-> <<"Fallback event">>]

\* the log_event call that ends the selected branch
EventCall(o, ps) ==
    IF o = "internal"
    THEN [event_type |-> "Internal", details |-> <<"No external communication">>]
    ELSE IF o = "peer0" /\ Len(ps) >= 1
    THEN [event_type |-> "Send", details |-> <<"To VM", ps[1]>>]
    ELSE IF o = "peer1" /\ Len(ps) >= 2
    THEN [event_type |-> "Send", details |-> <<"To VM", ps[2]>>]
    ELSE IF o = "all"
    THEN [event_type |-> "Send All", details |-> <<"To VMs", ps>>]
    ELSE [event_type |-> "Internal", details |-> <<"Fallback event">>]

\* SendErrorCall, were the failure logged under another event type
SendErrorCall_typed(t) == [event_type |-> "Error", details |-> <<"To VM", t>>]

\* send_message: the log_event call of the except branch
SendErrorCall(t) == [event_type |-> "Send Error", details |-> <<"To VM", t>>]

\* history: the record of one event of an Event Loop
Event(i, kind, pre, post, m) ==
    [tick |-> nticks[i] + 1, kind |-> kind, pre |-> pre, clock |-> post,
     received |-> m.timestamp, cause |-> m.cause, queued |-> Len(queue[i]),
     sent |-> <<>>, failed |-> <<>>]

\* run: while self.running is found False by a thread that was not yet asleep.
\* pc = "sleep" stands for a thread anywhere between the end of its last tick
\* and the end of the next time.sleep.
RunExit(i) ==
    /\ pc[i] = "sleep"
    /\ ~running[i]
    /\ pc' = [pc EXCEPT ![i] = "done"]
    /\ UNCHANGED <<logical_clock, running, queue, peers, draw, late,
                   server_socket, log_file, log_lock, call, todo, final,
                   current_timestamp, spc, conn, hist_vars, main_vars,
                   ext_sent, scale_vars>>

\* history: the count of the ticks begun while running was False, after
\* one more tick
LateTick(n, r) == IF n < 0 \/ r THEN n ELSE n + 1

\* the clock after process_message on every queued timestamp in turn
RECURSIVE DrainClock(_, _)
DrainClock(c, q) ==
    IF q = <<>> THEN c
    ELSE DrainClock(Max(c, Head(q).timestamp) + 1, Tail(q))

\* RunReceive, were the whole queue drained in one tick (the superseded
\* revision of run)
RunReceive_drain(i) ==
    /\ pc[i] = "sleep"
    /\ Activity < MaxActivity
    /\ queue[i] # <<>>
    /\ LET m == Head(queue[i])
           c == DrainClock(logical_clock[i], queue[i])
       IN /\ queue' = [queue EXCEPT ![i] = <<>>]
          /\ logical_clock' = [logical_clock EXCEPT ![i] = c]
          /\ events' = [events EXCEPT ![i] =
                          Append(@, Event(i, "Receive", logical_clock[i], c, m))]
    /\ call' = [call EXCEPT ![i] =
                  [event_type |-> "Receive", details |-> <<"From Network">>]]
    /\ pc' = [pc EXCEPT ![i] = "log_enter"]
    /\ nticks' = [nticks EXCEPT ![i] = @ + 1]
    /\ late' = [late EXCEPT ![i] = LateTick(@, running[i])]
    /\ UNCHANGED <<running, peers, draw, server_socket, log_file, log_lock,
                   todo, final, current_timestamp, spc, conn, main_vars,
                   ext_sent, scale_vars>>

\* RunReceive, were the head of the queue read without being removed
RunReceive_peek(i) ==
    /\ pc[i] = "sleep"
    /\ Activity < MaxActivity
    /\ queue[i] # <<>>
    /\ LET m == Head(queue[i])
           c == process_message(logical_clock[i], m.timestamp)
       IN /\ UNCHANGED queue
          /\ logical_clock' = [logical_clock EXCEPT ![i] = c]
          /\ events' = [events EXCEPT ![i] =
                          Append(@, Event(i, "Receive", logical_clock[i], c, m))]
    /\ call' = [call EXCEPT ![i] =
                  [event_type |-> "Receive", details |-> <<"From Network">>]]
    /\ pc' = [pc EXCEPT ![i] = "log_enter"]
    /\ nticks' = [nticks EXCEPT ![i] = @ + 1]
    /\ late' = [late EXCEPT ![i] = LateTick(@, running[i])]
    /\ UNCHANGED <<running, peers, draw, server_socket, log_file, log_lock,
                   todo, final, current_timestamp, spc, conn, main_vars,
                   ext_sent, scale_vars>>

\* run: the sleep is over and the queue is not empty: one message is popped
\* and handed to process_message, which goes on to log_event
RunReceive(i) ==
    /\ pc[i] = "sleep"
    /\ Activity < MaxActivity
    /\ queue[i] # <<>>
    /\ LET m == Head(queue[i])
           c == process_message(logical_clock[i], m.timestamp)
       IN /\ queue' = [queue EXCEPT ![i] = Tail(@)]
          /\ logical_clock' = [logical_clock EXCEPT ![i] = c]
          /\ events' = [events EXCEPT ![i] =
                          Append(@, Event(i, "Receive", logical_clock[i], c, m))]
    /\ call' = [call EXCEPT ![i] =
                  [event_type |-> "Receive", details |-> <<"From Network">>]]
    /\ pc' = [pc EXCEPT ![i] = "log_enter"]
    /\ nticks' = [nticks EXCEPT ![i] = @ + 1]
    /\ late' = [late EXCEPT ![i] = LateTick(@, running[i])]
    /\ UNCHANGED <<running, peers, draw, server_socket, log_file, log_lock,
                   todo, final, current_timestamp, spc, conn, main_vars,
                   ext_sent, scale_vars>>

\* run: the sleep is over and the queue is empty: a random event
RunLocal(i) ==
    /\ pc[i] = "sleep"
    /\ Activity < MaxActivity
    /\ queue[i] = <<>>
    /\ \E o \in {Outcome(n) : n \in 0 .. (ProbDen - 1)} :
         LET tg == Targets(o, peers[i])
             ev == EventCall(o, peers[i])
             c == LocalClock(logical_clock[i], o, peers[i])
         IN /\ logical_clock' = [logical_clock EXCEPT ![i] = c]
            /\ events' = [events EXCEPT ![i] =
                  Append(@, Event(i, o, logical_clock[i], c,
                                  [timestamp |-> 0, cause |-> NoCause]))]
            /\ todo' = [todo EXCEPT ![i] = tg]
            /\ IF tg = <<>>
               THEN /\ pc' = [pc EXCEPT ![i] = "log_enter"]
                    /\ call' = [call EXCEPT ![i] = ev]
                    /\ UNCHANGED <<final, current_timestamp>>
               ELSE /\ pc' = [pc EXCEPT ![i] = "send"]
                    /\ final' = [final EXCEPT ![i] = ev]
                    /\ current_timestamp' = [current_timestamp EXCEPT ![i] = c]
                    /\ UNCHANGED call
    /\ nticks' = [nticks EXCEPT ![i] = @ + 1]
    /\ late' = [late EXCEPT ![i] = LateTick(@, running[i])]
    /\ UNCHANGED <<running, queue, peers, draw, server_socket, log_file,
                   log_lock, spc, conn, main_vars, ext_sent, scale_vars>>

\* a port accepts connections while a VM's server socket is bound to it
Listening(t) ==
    t \in VMs /\ (~server_socket[t].closed \/ server_socket[t].held)

\* Message, were the clock incremented once more on sending (as the
\* send_message of main.py does)
Message_next(i, timestamp) ==
    [data |-> Str(timestamp + 1),
     cause |-> [vm |-> i, tick |-> nticks[i], timestamp |-> logical_clock[i]],
     client |-> "sends"]

\* Message, were the clock value of before the increment sent
Message_preinc(i, timestamp) ==
    [data |-> Str(timestamp - 1),
     cause |-> [vm |-> i, tick |-> nticks[i], timestamp |-> logical_clock[i]],
     client |-> "sends"]

\* the connection send_message makes: the payload str(timestamp).encode(),
\* what the client does with the connection (it sends and closes), and as
\* history the sending VM, its tick and the clock value of the event
Message(i, timestamp) ==
    [data |-> Str(timestamp),
     cause |-> [vm |-> i, tick |-> nticks[i], timestamp |-> logical_clock[i]],
     client |-> "sends"]

\* SendMessage, were the remaining sends of a Send All given up after a
\* failed one
SendMessage_abort(i) ==
    /\ pc[i] = "send"
    /\ LET t == Head(todo[i])
       IN IF Listening(t)
          THEN /\ todo' = [todo EXCEPT ![i] = Tail(@)]
               /\ server_socket' = [server_socket EXCEPT ![t].backlog =
                      Append(@, Message(i, current_timestamp[i]))]
               /\ events' = [events EXCEPT ![i][Len(events[i])].sent =
                                Append(@, t)]
               /\ IF Tail(todo[i]) = <<>>
                  THEN /\ pc' = [pc EXCEPT ![i] = "log_enter"]
                       /\ call' = [call EXCEPT ![i] = final[i]]
                       /\ final' = [final EXCEPT ![i] = NoCall]
                       /\ current_timestamp' =
                             [current_timestamp EXCEPT ![i] = 0]
                  ELSE UNCHANGED <<pc, call, final, current_timestamp>>
          ELSE /\ todo' = [todo EXCEPT ![i] = <<>>]
               /\ pc' = [pc EXCEPT ![i] = "log_enter"]
               /\ call' = [call EXCEPT ![i] = SendErrorCall(t)]
               /\ events' = [events EXCEPT ![i][Len(events[i])].failed =
                                Append(@, t)]
               /\ UNCHANGED <<server_socket, final, current_timestamp>>
    /\ UNCHANGED <<logical_clock, running, queue, peers, draw, late, log_file,
                   log_lock, spc, conn, nticks, main_vars, ext_sent,
                   scale_vars>>

\* SendMessage, were a failed send tried again after its Send Error is logged
SendMessage_retry(i) ==
    /\ pc[i] = "send"
    /\ LET t == Head(todo[i])
       IN IF Listening(t)
          THEN /\ todo' = [todo EXCEPT ![i] = Tail(@)]
               /\ server_socket' = [server_socket EXCEPT ![t].backlog =
                      Append(@, Message(i, current_timestamp[i]))]
               /\ events' = [events EXCEPT ![i][Len(events[i])].sent =
                                Append(@, t)]
               /\ IF Tail(todo[i]) = <<>>
                  THEN /\ pc' = [pc EXCEPT ![i] = "log_enter"]
                       /\ call' = [call EXCEPT ![i] = final[i]]
                       /\ final' = [final EXCEPT ![i] = NoCall]
                       /\ current_timestamp' =
                             [current_timestamp EXCEPT ![i] = 0]
                  ELSE UNCHANGED <<pc, call, final, current_timestamp>>
          ELSE /\ pc' = [pc EXCEPT ![i] = "log_enter"]
               /\ call' = [call EXCEPT ![i] = SendErrorCall(t)]
               /\ events' = [events EXCEPT ![i][Len(events[i])].failed =
                                Append(@, t)]
               /\ UNCHANGED <<todo, server_socket, final, current_timestamp>>
    /\ UNCHANGED <<logical_clock, running, queue, peers, draw, late, log_file,
                   log_lock, spc, conn, nticks, main_vars, ext_sent,
                   scale_vars>>

\* send_message(target_vm, timestamp): connect, sendall, close; on an
\* exception log_event("Send Error", ...) is called
SendMessage(i) ==
    /\ pc[i] = "send"
    /\ LET t == Head(todo[i])
       IN /\ todo' = [todo EXCEPT ![i] = Tail(@)]
          /\ IF Listening(t)
             THEN /\ server_socket' = [server_socket EXCEPT ![t].backlog =
                         Append(@, Message(i, current_timestamp[i]))]
                  /\ events' = [events EXCEPT ![i][Len(events[i])].sent =
                                   Append(@, t)]
                  /\ IF Tail(todo[i]) = <<>>
                     THEN /\ pc' = [pc EXCEPT ![i] = "log_enter"]
                          /\ call' = [call EXCEPT ![i] = final[i]]
                          /\ final' = [final EXCEPT ![i] = NoCall]
                          /\ current_timestamp' =
                                [current_timestamp EXCEPT ![i] = 0]
                     ELSE UNCHANGED <<pc, call, final, current_timestamp>>
             ELSE /\ pc' = [pc EXCEPT ![i] = "log_enter"]
                  /\ call' = [call EXCEPT ![i] = SendErrorCall(t)]
                  /\ events' = [events EXCEPT ![i][Len(events[i])].failed =
                                   Append(@, t)]
                  /\ UNCHANGED <<server_socket, final, current_timestamp>>
    /\ UNCHANGED <<logical_clock, running, queue, peers, draw, late, log_file,
                   log_lock, spc, conn, nticks, main_vars, ext_sent,
                   scale_vars>>

\* ----------------------------------------------------------------- Listener
\* server_loop: while self.running is found False, after an accept that timed
\* out or that raised because stop closed the socket (continue, either way).
\* The return of the accept releases a socket that stop has closed meanwhile.
\* spc = "accept" stands for a thread anywhere between the end of its last
\* iteration and the return of the next accept.
ServerExit(i) ==
    /\ spc[i] = "accept"
    /\ ~running[i]
    /\ spc' = [spc EXCEPT ![i] = "done"]
    /\ server_socket' = [server_socket EXCEPT ![i] = SocketRelease(@)]
    /\ UNCHANGED <<logical_clock, running, queue, peers, draw, late, log_file,
                   log_lock, run_vars, conn, hist_vars, main_vars, ext_sent,
                   scale_vars>>

\* server_loop: self.server_socket.accept() returns a connection
ServerAccept(i) ==
    /\ spc[i] = "accept"
    /\ ~server_socket[i].closed
    /\ server_socket[i].backlog # <<>>
    /\ conn' = [conn EXCEPT ![i] = Head(server_socket[i].backlog)]
    /\ server_socket' = [server_socket EXCEPT ![i].backlog = Tail(@)]
    /\ spc' = [spc EXCEPT ![i] = "recv"]
    /\ UNCHANGED <<logical_clock, running, queue, peers, draw, late, log_file,
                   log_lock, run_vars, hist_vars, main_vars, ext_sent,
                   scale_vars>>

\* ServerRecv, were the timestamp put at the front of the queue
ServerRecv_front(i) ==
    /\ spc[i] = "recv"
    /\ LET data == conn[i].data
           parsed == ParseInt(data)
       IN IF data # <<>> /\ parsed.ok
          THEN queue' = [queue EXCEPT ![i] =
                   <<[timestamp |-> parsed.val, cause |-> conn[i].cause]>> \o @]
          ELSE UNCHANGED queue
    /\ conn' = [conn EXCEPT ![i] = NoMessage]
    /\ spc' = [spc EXCEPT ![i] = IF running[i] THEN "accept" ELSE "done"]
    /\ UNCHANGED <<logical_clock, running, peers, draw, late, server_socket,
                   log_file, log_lock, run_vars, hist_vars, main_vars,
                   ext_sent, scale_vars>>

\* ServerRecv, were the receive rule applied by the Listener itself
ServerRecv_direct(i) ==
    /\ spc[i] = "recv"
    /\ LET data == conn[i].data
           parsed == ParseInt(data)
       IN IF data # <<>> /\ parsed.ok
          THEN logical_clock' = [logical_clock EXCEPT ![i] =
                                   Max(@, parsed.val) + 1]
          ELSE UNCHANGED logical_clock
    /\ conn' = [conn EXCEPT ![i] = NoMessage]
    /\ spc' = [spc EXCEPT ![i] = IF running[i] THEN "accept" ELSE "done"]
    /\ UNCHANGED <<queue, running, peers, draw, late, server_socket, log_file,
                   log_lock, run_vars, hist_vars, main_vars, ext_sent,
                   scale_vars>>

\* server_loop: recv, int(data.decode()), self.queue.put, conn.close, and the
\* loop condition while self.running. conn.recv(1024) returns when the client
\* has sent or closed, and does not return while the client holds the
\* connection open without sending (an accepted socket has no timeout). When
\* it raises (connection reset), the handler of Exception continues the loop
\* past conn.close(), and conn stays open.
ServerRecv(i) ==
    /\ spc[i] = "recv"
    /\ conn[i].client # "holds"
    /\ IF conn[i].client = "resets"
       THEN UNCHANGED <<queue, conn>>
       ELSE /\ LET data == conn[i].data
                   parsed == ParseInt(data)
               IN IF data # <<>> /\ parsed.ok
                  THEN queue' = [queue EXCEPT ![i] =
                           Append(@, [timestamp |-> parsed.val,
                                      cause |-> conn[i].cause])]
                  ELSE UNCHANGED queue
            /\ conn' = [conn EXCEPT ![i] = NoMessage]
    /\ spc' = [spc EXCEPT ![i] = IF running[i] THEN "accept" ELSE "done"]
    /\ UNCHANGED <<logical_clock, running, peers, draw, late, server_socket,
                   log_file, log_lock, run_vars, hist_vars, main_vars,
                   ext_sent, scale_vars>>

\* -------------------------------------------------------------- main thread
\* StopRunning, were the flag toggled instead of cleared
StopRunning_toggle(i) ==
    /\ mpc = "idle"
    /\ Activity < MaxActivity
    /\ stop_calls < MaxStopCalls
    /\ running' = [running EXCEPT ![i] = ~@]
    /\ mpc' = "close_socket"
    /\ mvm' = i
    /\ stop_calls' = stop_calls + 1
    /\ UNCHANGED <<logical_clock, queue, peers, draw, late, server_socket,
                   log_file, log_lock, run_vars, spc, conn, hist_vars, raised,
                   stops, ext_sent, scale_vars>>

\* stop: self.running = False
StopRunning(i) ==
    /\ mpc = "idle"
    /\ Activity < MaxActivity
    /\ stop_calls < MaxStopCalls
    /\ running' = [running EXCEPT ![i] = FALSE]
    /\ mpc' = "close_socket"
    /\ mvm' = i
    /\ stop_calls' = stop_calls + 1
    /\ UNCHANGED <<logical_clock, queue, peers, draw, late, server_socket,
                   log_file, log_lock, run_vars, spc, conn, hist_vars, raised,
                   stops, ext_sent, scale_vars>>

\* stop: self.server_socket.close()
StopSocket ==
    /\ mpc = "close_socket"
    /\ \E held \in HeldChoices(mvm) :
       LET c == IF held THEN SocketCloseHeld(server_socket[mvm])
                ELSE SocketClose(server_socket[mvm])
       IN /\ server_socket' = [server_socket EXCEPT ![mvm] = c.sock]
          /\ raised' = (raised \/ c.exc)
          /\ mpc' = IF c.exc THEN "idle" ELSE "close_log"
          /\ mvm' = IF c.exc THEN 0 ELSE mvm
    /\ UNCHANGED <<logical_clock, running, queue, peers, draw, late, log_file,
                   log_lock, run_vars, spc, conn, hist_vars, stops, stop_calls,
                   ext_sent, scale_vars>>

\* stop: self.log_file.close()
StopLog ==
    /\ mpc = "close_log"
    /\ LET c == FileClose(log_file[mvm])
       IN /\ log_file' = [log_file EXCEPT ![mvm] = c.file]
          /\ raised' = (raised \/ c.exc)
          /\ stops' = [stops EXCEPT ![mvm] = IF c.exc THEN @ ELSE @ + 1]
    /\ mpc' = "idle"
    /\ mvm' = 0
    /\ UNCHANGED <<logical_clock, running, queue, peers, draw, late,
                   server_socket, log_lock, run_vars, spc, conn, hist_vars,
                   stop_calls, ext_sent, scale_vars>>

\* ---------------------------------------------------------- external client
\* a client outside the cluster connects to a VM's port and writes a payload
ExtSend(t) ==
    /\ Activity < MaxActivity
    /\ ext_sent < MaxExt
    /\ Listening(t)
    /\ \E d \in ExtPayloads :
          server_socket' = [server_socket EXCEPT ![t].backlog =
                               Append(@, [data |-> d, cause |-> NoCause,
                                          client |-> "sends"])]
    /\ ext_sent' = ext_sent + 1
    /\ UNCHANGED <<logical_clock, running, queue, peers, draw, late, log_file,
                   log_lock, run_vars, spc, conn, hist_vars, main_vars,
                   scale_vars>>

Next ==
    \/ \E i \in VMs : RunExit(i)
    \/ \E i \in VMs : RunReceive(i)
    \/ \E i \in VMs : RunLocal(i)
    \/ \E i \in VMs : SendMessage(i)
    \/ \E i \in VMs : LogEnter(i)
    \/ \E i \in VMs : LogWrite(i)
    \/ \E i \in VMs : ServerExit(i)
    \/ \E i \in VMs : ServerAccept(i)
    \/ \E i \in VMs : ServerRecv(i)
    \/ \E i \in VMs : StopRunning(i)
    \/ StopSocket
    \/ StopLog
    \/ \E t \in VMs : ExtSend(t)

Spec == Init /\ [][Next]_vars

\* ------------------------------------------------ other clients of the port
\* a client connects to a listening port and resets the connection, so that
\* the Listener's conn.recv raises ConnectionResetError
ExtReset(t) ==
    /\ Activity < MaxActivity
    /\ ext_sent < MaxExt
    /\ Listening(t)
    /\ server_socket' = [server_socket EXCEPT ![t].backlog =
                             Append(@, [data |-> <<>>, cause |-> NoCause,
                                        client |-> "resets"])]
    /\ ext_sent' = ext_sent + 1
    /\ UNCHANGED <<logical_clock, running, queue, peers, draw, late, log_file,
                   log_lock, run_vars, spc, conn, hist_vars, main_vars,
                   scale_vars>>

\* a client connects to a listening port and keeps the connection open
\* without sending anything
ExtHold(t) ==
    /\ Activity < MaxActivity
    /\ ext_sent < MaxExt
    /\ Listening(t)
    /\ server_socket' = [server_socket EXCEPT ![t].backlog =
                             Append(@, [data |-> <<>>, cause |-> NoCause,
                                        client |-> "holds"])]
    /\ ext_sent' = ext_sent + 1
    /\ UNCHANGED <<logical_clock, running, queue, peers, draw, late, log_file,
                   log_lock, run_vars, spc, conn, hist_vars, main_vars,
                   scale_vars>>

\* the program with clients of every kind
NextExt ==
    \/ Next
    \/ \E t \in VMs : ExtReset(t)
    \/ \E t \in VMs : ExtHold(t)

SpecExt == Init /\ [][NextExt]_vars

\* the steps of the three kinds of thread
EventLoopStep(i) ==
    \/ RunExit(i)
    \/ RunReceive(i)
    \/ RunLocal(i)
    \/ SendMessage(i)
    \/ LogEnter(i)
    \/ LogWrite(i)

ListenerStep(i) == ServerExit(i) \/ ServerAccept(i) \/ ServerRecv(i)

MainStep == StopSocket \/ StopLog

\* the threads keep being scheduled: a thread that can take a step takes one
Fairness ==
    /\ \A i \in VMs : WF_vars(EventLoopStep(i))
    /\ \A i \in VMs : WF_vars(ListenerStep(i))
    /\ WF_vars(MainStep)

SpecLive == Init /\ [][NextExt]_vars /\ Fairness

\* the VMs as start_virtual_machines makes them, every other VM a peer
InitMesh ==
    /\ InitVM
    /\ peers = [i \in VMs |-> AllOthers(i)]
    /\ draw = NoDraw
    /\ late = NoLate

SpecLiveMesh == InitMesh /\ [][NextExt]_vars /\ Fairness

\* ------------------------------------------------------------------ startup
\* start_virtual_machines step by step, for a startup in which a port is
\* taken.  Before VM i is constructed, server_socket[i] is the listening
\* socket another process holds on port base_port + i (closed: nobody holds
\* the port), log_file[i] is the file vm_i.log a previous run has left,
\* and pc[i] = spc[i] = "new" say that the VM has no thread.

\* a line of a log that a previous run has left
StaleLine ==
    [event_type |-> "Internal", logical_clock |-> 1, queue_length |-> 0,
     details |-> <<"No external communication">>, tick |-> 0]

InitStart ==
    /\ logical_clock = [i \in VMs |-> 0]
    /\ running = [i \in VMs |-> FALSE]
    /\ queue = [i \in VMs |-> <<>>]
    /\ peers = [i \in VMs |-> AllOthers(i)]
    /\ \E taken \in (SUBSET VMs) \ {{}} :
          server_socket = [i \in VMs |-> [closed |-> i \notin taken,
                                         backlog |-> <<>>,
                                         held |-> FALSE]]
    /\ \E old \in [VMs -> {<<>>, <<StaleLine>>}] :
          log_file = [i \in VMs |-> [lines |-> old[i], buf |-> <<>>,
                                    closed |-> TRUE]]
    /\ log_lock = [i \in VMs |-> None]
    /\ pc = [i \in VMs |-> "new"]
    /\ call = [i \in VMs |-> NoCall]
    /\ todo = [i \in VMs |-> <<>>]
    /\ final = [i \in VMs |-> NoCall]
    /\ current_timestamp = [i \in VMs |-> 0]
    /\ spc = [i \in VMs |-> "new"]
    /\ conn = [i \in VMs |-> NoMessage]
    /\ mpc = "ctor_bind"
    /\ mvm = 0
    /\ raised = FALSE
    /\ nticks = [i \in VMs |-> 0]
    /\ events = [i \in VMs |-> <<>>]
    /\ stops = [i \in VMs |-> 0]
    /\ stop_calls = 0
    /\ ext_sent = 0
    /\ draw = NoDraw
    /\ late = NoLate
    /\ sims = NoSims
    /\ cwd = NoFiles

\* bind(("localhost", base_port + vm_id)) succeeds: no listening socket has
\* the port
PortFree(i) == server_socket[i].closed /\ ~server_socket[i].held

\* CtorBind, were the log opened before the socket is bound
CtorBind_openfirst(i) ==
    /\ mpc = "ctor_bind"
    /\ mvm = i
    /\ log_file' = [log_file EXCEPT ![i] =
                      [lines |-> <<>>, buf |-> <<>>, closed |-> FALSE]]
    /\ IF PortFree(i)
       THEN /\ running' = [running EXCEPT ![i] = TRUE]
            /\ server_socket' = [server_socket EXCEPT ![i] =
                                   [closed |-> FALSE, backlog |-> <<>>,
                                    held |-> FALSE]]
            /\ mpc' = "ctor_open"
            /\ UNCHANGED raised
       ELSE /\ raised' = TRUE
            /\ mpc' = "failed"
            /\ UNCHANGED <<running, server_socket>>
    /\ UNCHANGED <<logical_clock, queue, peers, draw, late, log_lock, run_vars,
                   spc, conn, hist_vars, mvm, stops, stop_calls, ext_sent,
                   scale_vars>>

\* __init__ up to settimeout: the fields, then socket, bind, listen; bind
\* raises OSError if the port is taken, which leaves __init__ and
\* start_virtual_machines
CtorBind(i) ==
    /\ mpc = "ctor_bind"
    /\ mvm = i
    /\ IF PortFree(i)
       THEN /\ running' = [running EXCEPT ![i] = TRUE]
            /\ server_socket' = [server_socket EXCEPT ![i] =
                                   [closed |-> FALSE, backlog |-> <<>>,
                                    held |-> FALSE]]
            /\ mpc' = "ctor_open"
            /\ UNCHANGED raised
       ELSE /\ raised' = TRUE
            /\ mpc' = "failed"
            /\ UNCHANGED <<running, server_socket>>
    /\ UNCHANGED <<logical_clock, queue, peers, draw, late, log_file, log_lock,
                   run_vars, spc, conn, hist_vars, mvm, stops, stop_calls,
                   ext_sent, scale_vars>>

\* __init__: self.log_file = open(f"vm_{vm_id}.log", "w") truncates the file
CtorOpen ==
    /\ mpc = "ctor_open"
    /\ log_file' = [log_file EXCEPT ![mvm] =
                      [lines |-> <<>>, buf |-> <<>>, closed |-> FALSE]]
    /\ mpc' = "ctor_thread"
    /\ UNCHANGED <<logical_clock, running, queue, peers, draw, late,
                   server_socket, log_lock, run_vars, spc, conn, hist_vars,
                   mvm, raised, stops, stop_calls, ext_sent, scale_vars>>

\* __init__: the server thread is started
CtorListener ==
    /\ mpc = "ctor_thread"
    /\ spc' = [spc EXCEPT ![mvm] = "accept"]
    /\ mpc' = "start_run"
    /\ UNCHANGED <<logical_clock, running, queue, peers, draw, late,
                   server_socket, log_file, log_lock, run_vars, conn,
                   hist_vars, mvm, raised, stops, stop_calls, ext_sent,
                   scale_vars>>

\* start_virtual_machines: the thread of vm.run is started, and the loop goes
\* on to the next VM
StartRun ==
    /\ mpc = "start_run"
    /\ pc' = [pc EXCEPT ![mvm] = "sleep"]
    /\ IF mvm + 1 < NumVMs
       THEN mpc' = "ctor_bind" /\ mvm' = mvm + 1
       ELSE mpc' = "idle" /\ mvm' = 0
    /\ UNCHANGED <<logical_clock, running, queue, peers, draw, late,
                   server_socket, log_file, log_lock, call, todo, final,
                   current_timestamp, spc, conn, hist_vars, raised, stops,
                   stop_calls, ext_sent, scale_vars>>

\* the startup, and the threads of the VMs it has started; nobody calls stop,
\* since the exception leaves start_virtual_machines before it returns
\* the VMs
NextStart ==
    \/ \E i \in VMs : CtorBind(i)
    \/ CtorOpen
    \/ CtorListener
    \/ StartRun
    \/ \E i \in VMs : RunReceive(i)
    \/ \E i \in VMs : RunLocal(i)
    \/ \E i \in VMs : SendMessage(i)
    \/ \E i \in VMs : LogEnter(i)
    \/ \E i \in VMs : LogWrite(i)
    \/ \E i \in VMs : ServerAccept(i)
    \/ \E i \in VMs : ServerRecv(i)
    \/ \E t \in VMs : ExtSend(t)

SpecStart == InitStart /\ [][NextStart]_vars

\* ------------------------------------------------------- the draw by itself
\* a VM configured with internal_prob = p / ProbDen, any p in [0, 1), and a
\* value r / (3 * ProbDen) of random.random(), any r in [0, 1): the grid holds
\* the three thresholds of every p
InitSelect ==
    /\ InitVM
    /\ \E p \in 0 .. (ProbDen - 1) : \E r \in 0 .. (3 * ProbDen - 1) :
          draw = [p |-> p, r |-> r, outcome |-> None]
    /\ late = NoLate

\* run: the branch that the if/elif chain selects for the draw
Draw ==
    /\ draw.outcome = None
    /\ draw' = [draw EXCEPT !.outcome = Select(draw.r, draw.p)]
    /\ UNCHANGED <<late, logical_clock, running, queue, peers, server_socket,
                   log_file, log_lock, run_vars, spc, conn, hist_vars,
                   main_vars, ext_sent, scale_vars>>

NextSelect == Draw

SpecSelect == InitSelect /\ [][NextSelect]_vars

\* --------------------------------------------- a second caller of log_event
\* the main thread calls vm.send_message(999, 5) on a running VM, as
\* test_send_message_error does: the connection is refused, and send_message
\* calls log_event
MainSendMessage(i) ==
    /\ mpc = "idle"
    /\ Activity < MaxActivity
    /\ stop_calls < MaxStopCalls
    /\ mpc' = "m_log_enter"
    /\ mvm' = i
    /\ stop_calls' = stop_calls + 1
    /\ UNCHANGED <<logical_clock, running, queue, peers, draw, late,
                   server_socket, log_file, log_lock, run_vars, spc, conn,
                   hist_vars, raised, stops, ext_sent, scale_vars>>

\* log_event in the main thread: with self.log_lock / if closed: return
MainLogEnter ==
    /\ mpc = "m_log_enter"
    /\ LockFree(mvm)
    /\ IF log_file[mvm].closed
       THEN mpc' = "idle" /\ mvm' = 0 /\ UNCHANGED log_lock
       ELSE /\ log_lock' = [log_lock EXCEPT ![mvm] = "main"]
            /\ mpc' = "m_log_write"
            /\ UNCHANGED mvm
    /\ UNCHANGED <<logical_clock, running, queue, peers, draw, late,
                   server_socket, log_file, run_vars, spc, conn, hist_vars,
                   raised, stops, stop_calls, ext_sent, scale_vars>>

\* log_event in the main thread: format, write, flush; the lock is released
MainLogWrite ==
    /\ mpc = "m_log_write"
    /\ LET w == FileWrite(log_file[mvm], LogEntry(mvm, SendErrorCall(AbsentVM)))
           f == IF w.exc THEN w ELSE FileFlush(w.file)
       IN log_file' = [log_file EXCEPT ![mvm] = f.file]
    /\ log_lock' = [log_lock EXCEPT ![mvm] = None]
    /\ mpc' = "idle"
    /\ mvm' = 0
    /\ UNCHANGED <<logical_clock, running, queue, peers, draw, late,
                   server_socket, run_vars, spc, conn, hist_vars, raised,
                   stops, stop_calls, ext_sent, scale_vars>>

\* the running VMs, and the main thread calling send_message on them
NextLog ==
    \/ \E i \in VMs : RunReceive(i)
    \/ \E i \in VMs : RunLocal(i)
    \/ \E i \in VMs : SendMessage(i)
    \/ \E i \in VMs : LogEnter(i)
    \/ \E i \in VMs : LogWrite(i)
    \/ \E i \in VMs : ServerAccept(i)
    \/ \E i \in VMs : ServerRecv(i)
    \/ \E t \in VMs : ExtSend(t)
    \/ \E i \in VMs : MainSendMessage(i)
    \/ MainLogEnter
    \/ MainLogWrite

SpecLog == Init /\ [][NextLog]_vars

\* ------------------------------------------- the ticks after stop, counted
\* the VMs as start_virtual_machines makes them, every other VM a peer, with
\* the ticks begun while running is False counted from the start
InitResidual ==
    /\ InitVM
    /\ peers = [i \in VMs |-> AllOthers(i)]
    /\ draw = NoDraw
    /\ late = [i \in VMs |-> 0]

SpecResidual == InitResidual /\ [][Next]_vars

\* ----------------------------------------- run_scale_model: concurrent runs
\* Each run of run_simulation starts its VMs with start_virtual_machines, on
\* its own base port and in the working directory all runs share.  Of a VM
\* this part keeps what its log file depends on: __init__ binds the port and
\* opens the file, log_event writes to it, stop closes it.
vm_vars == <<logical_clock, running, queue, peers, server_socket, log_file,
             log_lock, run_vars, spc, conn, hist_vars, main_vars, ext_sent,
             draw, late>>

\* the VMs constructed so far, as <<run_id, index>>
Instances == {x \in Runs \X (1 .. NumVMs) : x[2] <= Len(sims[x[1]].vms)}
Instance(x) == sims[x[1]].vms[x[2]]

\* the ports on which a VM that has not been stopped listens
BoundPorts == {Instance(x).base_port + Instance(x).vm_id :
                  x \in {y \in Instances : Instance(y).running}}

\* main: t = threading.Thread(target=run_simulation, ...); t.start(), for
\* run_id in order
ThreadStart(r) ==
    /\ sims[r].pc = "new"
    /\ \A q \in Runs : q < r => sims[q].pc # "new"
    /\ sims' = [sims EXCEPT ![r].pc = "begin"]
    /\ UNCHANGED <<cwd, vm_vars>>

\* run_simulation: base_port chosen, the run directory made
RunBegin(r) ==
    /\ sims[r].pc = "begin"
    /\ sims' = [sims EXCEPT ![r].pc = "start"]
    /\ UNCHANGED <<cwd, vm_vars>>

\* start_virtual_machines: VirtualMachine(i, peers, speed, base_port) for the
\* next i.  bind raises if the port is taken, and the exception ends the
\* thread; open(..., "w") creates the file or truncates it.
CtorVM(r) ==
    /\ sims[r].pc = "start"
    /\ LET i == Len(sims[r].vms)
           bp == base_port(r)
           name == LogName(i, bp)
           vm == [vm_id |-> i, base_port |-> bp, running |-> TRUE,
                  log_file |-> [name |-> name, closed |-> FALSE]]
       IN IF bp + i \in BoundPorts
          THEN /\ sims' = [sims EXCEPT ![r].pc = "crashed"]
               /\ UNCHANGED cwd
          ELSE /\ cwd' = Truncated(cwd, name)
               /\ sims' = [sims EXCEPT
                             ![r].vms = Append(@, vm),
                             ![r].pc = IF i + 1 = NumVMs
                                       THEN "sleep" ELSE "start"]
    /\ UNCHANGED vm_vars

\* log_event of a VM: a line written and flushed to its log file, unless the
\* file is closed
VMLog(r, n) ==
    /\ n \in 1 .. Len(sims[r].vms)
    /\ LET vm == sims[r].vms[n]
       IN /\ ~vm.log_file.closed
          /\ <<r, vm.vm_id>> \notin cwd[vm.log_file.name]
          /\ cwd' = [cwd EXCEPT ![vm.log_file.name] =
                                    @ \cup {<<r, vm.vm_id>>}]
    /\ UNCHANGED <<sims, vm_vars>>

\* run_simulation: time.sleep(run_time) is over
RunWake(r) ==
    /\ sims[r].pc = "sleep"
    /\ sims' = [sims EXCEPT ![r].pc = "stop", ![r].k = 1]
    /\ UNCHANGED <<cwd, vm_vars>>

\* run_simulation: vm.stop() for the next VM
RunStop(r) ==
    /\ sims[r].pc = "stop"
    /\ LET n == sims[r].k
       IN sims' = [sims EXCEPT
                     ![r].vms[n].running = FALSE,
                     ![r].vms[n].log_file.closed = TRUE,
                     ![r].k = IF n = NumVMs THEN 0 ELSE n + 1,
                     ![r].pc = IF n = NumVMs THEN "move" ELSE "stop"]
    /\ UNCHANGED <<cwd, vm_vars>>

\* run_simulation, after time.sleep(2): the file named log_filename moved
\* into the run directory if it exists, for the next vm_id
RunMove(r) ==
    /\ sims[r].pc = "move"
    /\ LET vm_id == sims[r].k
           from == log_filename(vm_id, base_port(r))
       IN /\ IF from \in DOMAIN cwd
             THEN cwd' = Renamed(cwd, from, InDir(r, from))
             ELSE UNCHANGED cwd
          /\ sims' = [sims EXCEPT
                        ![r].k = vm_id + 1,
                        ![r].pc = IF vm_id + 1 = NumVMs
                                  THEN "done" ELSE "move"]
    /\ UNCHANGED vm_vars

NextScale ==
    \/ \E r \in Runs : ThreadStart(r)
    \/ \E r \in Runs : RunBegin(r)
    \/ \E r \in Runs : CtorVM(r)
    \/ \E r \in Runs : \E n \in 1 .. NumVMs : VMLog(r, n)
    \/ \E r \in Runs : RunWake(r)
    \/ \E r \in Runs : RunStop(r)
    \/ \E r \in Runs : RunMove(r)

SpecScale == InitMesh /\ [][NextScale]_vars

\* ------------------------------------------------------------------ claims
\* the lines of a VM's log, in the order written
Lines(i) == log_file[i].lines \o log_file[i].buf

\* the k-th event of VM i is over: its last log_event call has returned
EventDone(i, k) == k < nticks[i] \/ pc[i] \in {"sleep", "done", "crashed"}

\* the lines of VM i written in its k-th event with the given event type
EntriesOf(i, k, type) ==
    {n \in 1 .. Len(Lines(i)) :
        Lines(i)[n].tick = k /\ Lines(i)[n].event_type = type}

\* the k-th event of VM i was a local event that had nobody to send to
IsFallback(i, k) ==
    \/ events[i][k].kind = "peer0" /\ Len(peers[i]) = 0
    \/ events[i][k].kind = "peer1" /\ Len(peers[i]) < 2

\* C1: the clock snapshots in every VM's log are non-decreasing, and no step
\* of any thread ever lowers a VM's logical_clock, which starts at 0; this
\* includes receiving a timestamp below the own clock or below zero.
C1_Monotonicity ==
    /\ [](\A i \in VMs :
            /\ logical_clock[i] >= 0
            /\ \A n \in 1 .. (Len(Lines(i)) - 1) :
                  Lines(i)[n].logical_clock <= Lines(i)[n + 1].logical_clock)
    /\ [][\A i \in VMs : logical_clock'[i] >= logical_clock[i]]_vars

\* C1 witness: a logged Receive of a timestamp below the clock of the receiver
C1_Witness ==
    \E i \in VMs : \E n \in 1 .. Len(Lines(i)) :
        /\ Lines(i)[n].event_type = "Receive"
        /\ events[i][Lines(i)[n].tick].received < events[i][Lines(i)[n].tick].pre

\* the receive rule on every Receive event: the clock after it, which is the
\* VM's clock until its next event, is received + 1 if the received value is
\* above the clock before it, and that clock + 1 otherwise; every line
\* written for the event is a Receive line carrying that value
C2_Rule ==
    \A i \in VMs :
        /\ nticks[i] = Len(events[i])
        /\ nticks[i] > 0 => logical_clock[i] = events[i][nticks[i]].clock
        /\ \A k \in 1 .. Len(events[i]) :
              events[i][k].kind = "Receive" =>
                 /\ events[i][k].clock =
                       IF events[i][k].received > events[i][k].pre
                       THEN events[i][k].received + 1
                       ELSE events[i][k].pre + 1
                 /\ \A n \in 1 .. Len(Lines(i)) :
                       Lines(i)[n].tick = k =>
                          /\ Lines(i)[n].event_type = "Receive"
                          /\ Lines(i)[n].logical_clock = events[i][k].clock
                 /\ Cardinality(EntriesOf(i, k, "Receive")) <= 1

\* C2 as stated: every received value is handled by the receive rule, and
\* a Receive entry carrying the new clock is logged for it.
C2_Original ==
    /\ C2_Rule
    /\ \A i \in VMs : \A k \in 1 .. Len(events[i]) :
          (events[i][k].kind = "Receive" /\ EventDone(i, k))
             => EntriesOf(i, k, "Receive") # {}

\* C2 as amended: every received value is handled by the receive rule, and a
\* Receive entry carrying the new clock is logged for it unless stop has
\* closed the log, in which case nothing is written.
C2_ReceiveRule ==
    [](/\ C2_Rule
       /\ \A i \in VMs : \A k \in 1 .. Len(events[i]) :
             (events[i][k].kind = "Receive" /\ EventDone(i, k)
              /\ ~log_file[i].closed)
                => EntriesOf(i, k, "Receive") # {})

\* C2 witness: clock 0 and received 7 give 8, logged as Receive
C2_Witness ==
    \E i \in VMs : \E n \in 1 .. Len(Lines(i)) :
        /\ Lines(i)[n].event_type = "Receive"
        /\ Lines(i)[n].logical_clock = 8
        /\ events[i][Lines(i)[n].tick].pre = 0
        /\ events[i][Lines(i)[n].tick].received = 7

\* C3: the step that begins a local event (Internal, Send, Send All, with
\* any number of peers) raises the clock by exactly 1, and no later step of
\* the event (its sends, failed or not, and its log_event calls) changes it.
C3_LocalEventRule ==
    [][\A i \in VMs :
          IF nticks'[i] # nticks[i]
          THEN events'[i][Len(events'[i])].kind # "Receive"
                  => logical_clock'[i] = logical_clock[i] + 1
          ELSE logical_clock'[i] = logical_clock[i]]_vars

\* C3 witness: a finished Send All to two peers, one send of which failed
C3_Witness ==
    \E i \in VMs : \E k \in 1 .. Len(events[i]) :
        /\ events[i][k].kind = "all"
        /\ Len(peers[i]) = 2
        /\ Len(events[i][k].sent) = 1
        /\ Len(events[i][k].failed) = 1
        /\ EventDone(i, k)
        /\ logical_clock[i] = events[i][k].pre + 1

\* C4: when a VM processes a message that a VM sent in an event with clock
\* value v, its clock right after is at least v + 1, whatever it was before.
C4_Causality ==
    [](\A i \in VMs : \A k \in 1 .. Len(events[i]) :
          (events[i][k].kind = "Receive" /\ events[i][k].cause.vm \in VMs) =>
              /\ events[events[i][k].cause.vm][events[i][k].cause.tick].clock
                    = events[i][k].cause.timestamp
              /\ events[i][k].clock >= events[i][k].cause.timestamp + 1)

\* C4 witness: a message processed as the second or later event of the
\* receiver, whose clock had already reached the value sent
C4_Witness ==
    \E i \in VMs : \E k \in 2 .. Len(events[i]) :
        /\ events[i][k].kind = "Receive"
        /\ events[i][k].cause.vm \in VMs
        /\ events[i][k].pre >= events[i][k].cause.timestamp
        /\ EventDone(i, k)

\* event s of VM a causally precedes event t of VM b through a chain that
\* contains a send/receive pair: an event of b up to t received a message
\* sent by a in event s or later, or sent by an event that s so precedes
RECURSIVE CausallyBefore(_, _, _, _)
CausallyBefore(a, s, b, t) ==
    \E u \in 1 .. t :
        /\ events[b][u].kind = "Receive"
        /\ events[b][u].cause.vm \in VMs
        /\ \/ events[b][u].cause.vm = a /\ s <= events[b][u].cause.tick
           \/ CausallyBefore(a, s, events[b][u].cause.vm, events[b][u].cause.tick)

\* C5: for any two log lines, of one VM or two, if the event of the first
\* causally precedes the event of the second through a chain with a
\* send/receive pair, the first line's clock snapshot is strictly smaller.
C5_LamportOrder ==
    [](\A i \in VMs : \A j \in VMs :
          \A n \in 1 .. Len(Lines(i)) : \A m \in 1 .. Len(Lines(j)) :
              \/ Lines(i)[n].logical_clock < Lines(j)[m].logical_clock
              \/ ~CausallyBefore(i, Lines(i)[n].tick, j, Lines(j)[m].tick))

\* C5 witness: an Internal line of one VM precedes a Receive line of another
\* through a later send of the first VM
C5_Witness ==
    \E i \in VMs : \E j \in VMs \ {i} :
        \E n \in 1 .. Len(Lines(i)) : \E m \in 1 .. Len(Lines(j)) :
            /\ Lines(i)[n].event_type = "Internal"
            /\ Lines(j)[m].event_type = "Receive"
            /\ CausallyBefore(i, Lines(i)[n].tick, j, Lines(j)[m].tick)

\* C6: a tick that finds the queue non-empty pops exactly its head, makes a
\* Receive event of it and sends nothing; every tick makes one event; and
\* outside the beginning of a tick the queue never shrinks and no event
\* is made.
C6_SingleMessagePerTick ==
    [][\A i \in VMs :
          IF nticks'[i] # nticks[i]
          THEN /\ nticks'[i] = nticks[i] + 1
               /\ Len(events'[i]) = Len(events[i]) + 1
               /\ queue[i] # <<>> =>
                     /\ queue'[i] = Tail(queue[i])
                     /\ events'[i][Len(events'[i])].kind = "Receive"
                     /\ call'[i].event_type = "Receive"
                     /\ todo'[i] = <<>>
                     /\ server_socket' = server_socket
          ELSE /\ Len(queue'[i]) >= Len(queue[i])
               /\ Len(events'[i]) = Len(events[i])]_vars

\* C6 witness: a tick has just popped one of two queued timestamps
C6_Witness ==
    \E i \in VMs :
        /\ pc[i] = "log_enter"
        /\ nticks[i] >= 1
        /\ events[i][nticks[i]].kind = "Receive"
        /\ events[i][nticks[i]].queued = 2
        /\ Len(queue[i]) = 1

\* the Send Error lines VM i has written in its k-th event name, in order,
\* the targets its sends failed for
SendErrorsLogged(i, k) ==
    IF events[i][k].failed = <<>>
    THEN \A n \in 1 .. Len(Lines(i)) :
            Lines(i)[n].tick = k => Lines(i)[n].event_type # "Send Error"
    ELSE LET errs == SelectSeq(Lines(i),
                        LAMBDA e : e.tick = k /\ e.event_type = "Send Error")
         IN /\ Len(errs) <= Len(events[i][k].failed)
            /\ \A n \in 1 .. Len(errs) :
                  /\ errs[n].details = <<"To VM", events[i][k].failed[n]>>
                  /\ errs[n].logical_clock = events[i][k].clock

\* the number of Send Error lines VM i has had the time to write for its
\* k-th event: one per failed send, less the one whose log_event is running
SendErrorsDue(i, k) ==
    Len(events[i][k].failed) -
        (IF k = nticks[i] /\ call[i].event_type = "Send Error"
            /\ pc[i] \in {"log_enter", "log_write"}
         THEN 1 ELSE 0)

\* a failed send is abandoned: every target of an event is tried once and no
\* more, no connection, queued timestamp or Receive event of the target
\* stems from a failed send, and the sender's clock keeps its increment
C7_Abandoned ==
    \A i \in VMs : \A k \in 1 .. Len(events[i]) :
        /\ Len(events[i][k].sent) + Len(events[i][k].failed)
              + (IF k = nticks[i] /\ pc[i] # "crashed" THEN Len(todo[i]) ELSE 0)
              = Len(Targets(events[i][k].kind, peers[i]))
        /\ events[i][k].failed # <<>> =>
              /\ events[i][k].clock = events[i][k].pre + 1
              /\ k = nticks[i] => logical_clock[i] = events[i][k].clock
        /\ \A f \in 1 .. Len(events[i][k].failed) :
              LET t == events[i][k].failed[f]
              IN t \in VMs =>
                   /\ \A x \in 1 .. Len(server_socket[t].backlog) :
                         server_socket[t].backlog[x].cause.vm = i
                            => server_socket[t].backlog[x].cause.tick # k
                   /\ conn[t].cause.vm = i => conn[t].cause.tick # k
                   /\ \A x \in 1 .. Len(queue[t]) :
                         queue[t][x].cause.vm = i => queue[t][x].cause.tick # k
                   /\ \A x \in 1 .. Len(events[t]) :
                         events[t][x].cause.vm = i => events[t][x].cause.tick # k
        /\ SendErrorsLogged(i, k)

\* C7 as stated: a failed send is abandoned, and a Send Error entry naming
\* the target is appended to the sender's log.
C7_Original ==
    /\ C7_Abandoned
    /\ \A i \in VMs : \A k \in 1 .. Len(events[i]) :
          Cardinality(EntriesOf(i, k, "Send Error")) = SendErrorsDue(i, k)

\* C7 as amended: a failed send is abandoned, and a Send Error entry naming
\* the target is appended to the sender's log unless stop has closed that
\* log, in which case nothing is written.
C7_SendFailure ==
    [](/\ C7_Abandoned
       /\ \A i \in VMs : \A k \in 1 .. Len(events[i]) :
             ~log_file[i].closed =>
                Cardinality(EntriesOf(i, k, "Send Error")) = SendErrorsDue(i, k))

\* C7 witness: a send to a stopped VM has failed and its Send Error is logged
C7_Witness ==
    \E i \in VMs : \E k \in 1 .. Len(events[i]) :
        /\ events[i][k].failed # <<>>
        /\ events[i][k].failed[1] \in VMs
        /\ SendErrorsDue(i, k) = 1
        /\ Cardinality(EntriesOf(i, k, "Send Error")) = 1
        /\ queue[events[i][k].failed[1]] = <<>>

\* C8: an event that drew the first-peer branch with no peer, or the
\* second-peer branch with fewer than two peers, sends nothing, raises the
\* clock by exactly 1, and is logged as Internal with "Fallback event" (one
\* line, written if the log is open).
C8_Fallback ==
    [](\A i \in VMs : \A k \in 1 .. Len(events[i]) :
           IsFallback(i, k) =>
               /\ events[i][k].sent = <<>>
               /\ events[i][k].failed = <<>>
               /\ events[i][k].clock = events[i][k].pre + 1
               /\ k = nticks[i] => logical_clock[i] = events[i][k].clock
               /\ \A n \in 1 .. Len(Lines(i)) :
                     Lines(i)[n].tick = k =>
                        /\ Lines(i)[n].event_type = "Internal"
                        /\ Lines(i)[n].details = <<"Fallback event">>
                        /\ Lines(i)[n].logical_clock = events[i][k].clock
               /\ Cardinality(EntriesOf(i, k, "Internal")) <= 1
               /\ (EventDone(i, k) /\ ~log_file[i].closed)
                     => Cardinality(EntriesOf(i, k, "Internal")) = 1
               /\ \A t \in VMs :
                     /\ \A x \in 1 .. Len(server_socket[t].backlog) :
                           server_socket[t].backlog[x].cause.vm = i
                              => server_socket[t].backlog[x].cause.tick # k
                     /\ \A x \in 1 .. Len(queue[t]) :
                           queue[t][x].cause.vm = i => queue[t][x].cause.tick # k)

\* C8 witness: the second-peer branch on a VM with one peer, logged
C8_Witness ==
    \E i \in VMs : \E k \in 1 .. Len(events[i]) :
        /\ events[i][k].kind = "peer1"
        /\ Len(peers[i]) = 1
        /\ EntriesOf(i, k, "Internal") # {}

\* C9: every step of a call of stop on a VM that a call of stop has already
\* completed on raises nothing and leaves running False, the listening
\* socket closed and the log closed with its contents as they were.
C9_StopIdempotent ==
    [][\A i \in VMs :
          (/\ stops[i] >= 1
           /\ \/ stop_calls' # stop_calls /\ mvm' = i
              \/ mpc # "idle" /\ mpc' # mpc /\ mvm = i)
          => /\ ~raised'
             /\ ~running[i] /\ ~running'[i]
             /\ server_socket[i].closed /\ server_socket'[i] = server_socket[i]
             /\ log_file[i].closed /\ log_file'[i] = log_file[i]]_vars

\* C9 witness: a second stop has completed while the Event Loop is in a tick
C9_Witness ==
    \E i \in VMs :
        /\ stops[i] = 2
        /\ ~raised
        /\ pc[i] \in {"send", "log_enter"}

\* C10: once a VM's log is closed it never changes again, and no log_event
\* call ends its thread with an exception.
C10_NoWriteAfterClose ==
    /\ [](\A i \in VMs : pc[i] # "crashed")
    /\ [][\A i \in VMs : log_file[i].closed => log_file'[i] = log_file[i]]_vars

\* C10 witness: an Event Loop has finished an event, and ended, with the log
\* closed and nothing written for that event
C10_Witness ==
    \E i \in VMs :
        /\ log_file[i].closed
        /\ pc[i] = "done"
        /\ nticks[i] >= 1
        /\ \A n \in 1 .. Len(Lines(i)) : Lines(i)[n].tick # nticks[i]

\* every finished event has a line carrying the clock value it left, written
\* under the event type of its kind
Recorded(i, k) ==
    \E n \in 1 .. Len(Lines(i)) :
        /\ Lines(i)[n].tick = k
        /\ Lines(i)[n].logical_clock = events[i][k].clock
        /\ Lines(i)[n].event_type # "Send Error"
        /\ (Lines(i)[n].event_type = "Receive") = (events[i][k].kind = "Receive")

\* the clock of a VM is 0 until its first event and the value its last event
\* left from then on
ClockFromEvents ==
    \A i \in VMs :
        /\ nticks[i] = Len(events[i])
        /\ logical_clock[i] =
              IF nticks[i] = 0 THEN 0 ELSE events[i][nticks[i]].clock
        /\ \A k \in 1 .. Len(events[i]) :
              events[i][k].pre = IF k = 1 THEN 0 ELSE events[i][k - 1].clock

\* C11 as stated: the clock changes only in events, and every event that has
\* changed it has an entry in the VM's log carrying the new value.
C11_Original ==
    /\ ClockFromEvents
    /\ \A i \in VMs : \A k \in 1 .. Len(events[i]) :
          EventDone(i, k) => Recorded(i, k)

\* C11 as amended: the clock changes only in events, and every finished event
\* has an entry in the VM's log carrying the new value unless stop has closed
\* the log before the event's log_event call, in which case the event is not
\* recorded.
C11_LogCompleteness ==
    [](/\ ClockFromEvents
       /\ \A i \in VMs : \A k \in 1 .. Len(events[i]) :
             (EventDone(i, k) /\ ~log_file[i].closed) => Recorded(i, k))

\* C11 witness: a Receive and a local event of one VM, both finished and
\* recorded in its open log
C11_Witness ==
    \E i \in VMs :
        /\ ~log_file[i].closed
        /\ nticks[i] >= 2
        /\ EventDone(i, nticks[i])
        /\ \E k \in 1 .. nticks[i] : events[i][k].kind = "Receive"
        /\ \E k \in 1 .. nticks[i] : events[i][k].kind # "Receive"
        /\ \A k \in 1 .. nticks[i] : Recorded(i, k)

\* C12 as stated: the event type of every line of every log is one of
\* Internal, Receive, Send, Send-All, Send-Error.
C12_Original ==
    \A i \in VMs : \A n \in 1 .. Len(Lines(i)) :
        Lines(i)[n].event_type \in
            {"Internal", "Receive", "Send", "Send-All", "Send-Error"}

\* C12 as amended: the event type of every line of every log is one of
\* Internal, Receive, Send, Send All, Send Error (the last two written with
\* a space).
C12_Vocabulary ==
    [](\A i \in VMs : \A n \in 1 .. Len(Lines(i)) :
          Lines(i)[n].event_type \in
              {"Internal", "Receive", "Send", "Send All", "Send Error"})

\* C12 witness: one log holds a Send Error line and a Send All line
C12_Witness ==
    \E i \in VMs :
        /\ \E n \in 1 .. Len(Lines(i)) : Lines(i)[n].event_type = "Send Error"
        /\ \E n \in 1 .. Len(Lines(i)) : Lines(i)[n].event_type = "Send All"

\* C13: every line whose event type is not Receive was written in a local
\* event, and its clock snapshot is the clock the VM had right before that
\* event plus 1, which is the clock the event's increment left.
C13_SnapshotRule ==
    [](\A i \in VMs : \A n \in 1 .. Len(Lines(i)) :
          Lines(i)[n].event_type # "Receive" =>
             /\ events[i][Lines(i)[n].tick].kind # "Receive"
             /\ Lines(i)[n].logical_clock = events[i][Lines(i)[n].tick].pre + 1
             /\ Lines(i)[n].logical_clock = events[i][Lines(i)[n].tick].clock)

\* C13 witness: a Send line and a Send Error line written in events that
\* began with a clock above 0
C13_Witness ==
    \E i \in VMs : \E j \in VMs :
        /\ \E n \in 1 .. Len(Lines(i)) :
              /\ Lines(i)[n].event_type = "Send"
              /\ events[i][Lines(i)[n].tick].pre >= 1
        /\ \E n \in 1 .. Len(Lines(j)) :
              /\ Lines(j)[n].event_type = "Send Error"
              /\ events[j][Lines(j)[n].tick].pre >= 1

\* C14 as stated: a Receive raises the clock by exactly
\* max(0, received - clock).
C14_Original ==
    \A i \in VMs : \A k \in 1 .. Len(events[i]) :
        events[i][k].kind = "Receive" =>
            events[i][k].clock - events[i][k].pre =
                IF events[i][k].received - events[i][k].pre > 0
                THEN events[i][k].received - events[i][k].pre ELSE 0

\* C14 as amended: a Receive raises the clock by exactly
\* max(0, received - clock) + 1, so the clock never decreases.
C14_ReceiveDelta ==
    [](\A i \in VMs : \A k \in 1 .. Len(events[i]) :
          events[i][k].kind = "Receive" =>
             /\ events[i][k].clock - events[i][k].pre =
                   (IF events[i][k].received - events[i][k].pre > 0
                    THEN events[i][k].received - events[i][k].pre ELSE 0) + 1
             /\ events[i][k].clock > events[i][k].pre)

\* C14 witness: a VM has processed a timestamp sent by another VM that was
\* above its own clock by 2 or more
C14_Witness ==
    \E i \in VMs : \E k \in 1 .. Len(events[i]) :
        /\ events[i][k].kind = "Receive"
        /\ events[i][k].cause.vm \in VMs
        /\ events[i][k].received - events[i][k].pre >= 2
        /\ logical_clock[i] = events[i][k].received + 1

\* C15: every VM is constructed running, with its listening socket and its
\* log open; once running is False no step sets it back to True, and no
\* step reopens a closed listening socket or a closed log.
C15_Lifecycle ==
    /\ \A i \in VMs :
          running[i] /\ ~server_socket[i].closed /\ ~log_file[i].closed
    /\ [][\A i \in VMs :
             /\ ~running[i] => ~running'[i]
             /\ server_socket[i].closed => server_socket'[i].closed
             /\ log_file[i].closed => log_file'[i].closed]_vars

\* C15 witness: a VM that has made an event is stopped, both its threads
\* have ended, and stop is called on it again
C15_Witness ==
    \E i \in VMs :
        /\ stops[i] >= 1
        /\ nticks[i] >= 1
        /\ pc[i] = "done"
        /\ spc[i] = "done"
        /\ mpc = "close_socket"
        /\ mvm = i

\* C16: neither thread of a VM ends while running is True, whatever sends,
\* payloads or log writes have failed; every finished Send All has tried
\* every peer of the list, the ones after a failed send included.
C16_Containment ==
    [](\A i \in VMs :
          /\ pc[i] # "crashed"
          /\ pc[i] = "done" => ~running[i]
          /\ spc[i] = "done" => ~running[i]
          /\ \A k \in 1 .. Len(events[i]) :
                (events[i][k].kind = "all" /\ EventDone(i, k)) =>
                   /\ Len(events[i][k].sent) + Len(events[i][k].failed)
                         = Len(peers[i])
                   /\ \A p \in 1 .. Len(peers[i]) :
                         \/ \E x \in 1 .. Len(events[i][k].sent) :
                               events[i][k].sent[x] = peers[i][p]
                         \/ \E x \in 1 .. Len(events[i][k].failed) :
                               events[i][k].failed[x] = peers[i][p])

\* C16 witness: a Send All whose first send failed has sent to its second
\* peer, and the VM, still running, has begun a later tick
C16_Witness ==
    \E i \in VMs : \E k \in 1 .. Len(events[i]) :
        /\ events[i][k].kind = "all"
        /\ Len(peers[i]) = 2
        /\ events[i][k].failed = <<peers[i][1]>>
        /\ events[i][k].sent = <<peers[i][2]>>
        /\ nticks[i] > k
        /\ running[i]

\* C17: a construction that finds its port taken ends with an error at the
\* bind, having opened or truncated no log file and started no thread; from
\* then on the VM has no Listener and no Event Loop, and its log file stays
\* as the previous run left it.
C17_BindFailure ==
    /\ [][(mpc = "ctor_bind" /\ mpc' # mpc /\ ~server_socket[mvm].closed)
             => /\ mpc' = "failed"
                /\ raised'
                /\ mvm' = mvm
                /\ log_file' = log_file
                /\ pc' = pc
                /\ spc' = spc
                /\ running' = running]_vars
    /\ [][mpc = "failed"
             => /\ mpc' = "failed"
                /\ mvm' = mvm
                /\ log_file'[mvm] = log_file[mvm]]_vars
    /\ [](mpc = "failed"
             => /\ raised
                /\ ~running[mvm]
                /\ pc[mvm] = "new"
                /\ spc[mvm] = "new"
                /\ nticks[mvm] = 0
                /\ log_file[mvm].closed)

\* C17 witness: the construction of VM 1 has failed, the log a previous
\* run has left for it is as it was, and VM 0 has made an event since
C17_Witness ==
    /\ mpc = "failed"
    /\ mvm = 1
    /\ raised
    /\ log_file[1] = [lines |-> <<StaleLine>>, buf |-> <<>>, closed |-> TRUE]
    /\ nticks[0] >= 1
    /\ Lines(0) # <<>>

\* C18: the Listener step that reads a payload that is empty or is no
\* integer adds nothing to any queue, writes no log line, changes no
\* clock, closes the connection and leaves the Listener accepting (or
\* ended, if running is False by then).
C18_MalformedDropped ==
    [][\A i \in VMs :
          (spc[i] = "recv" /\ spc'[i] # "recv"
           /\ conn[i].data \in {<<"x">>, <<>>})
          => /\ queue' = queue
             /\ log_file' = log_file
             /\ logical_clock' = logical_clock
             /\ conn'[i] = NoMessage
             /\ spc'[i] = IF running[i] THEN "accept" ELSE "done"]_vars

\* C18 witness: the one payload written by an external client is gone, no
\* VM has made an event or been stopped, all queues are empty, and all
\* Listeners are accepting
C18_Witness ==
    /\ ext_sent = 1
    /\ stop_calls = 0
    /\ \A i \in VMs :
          /\ nticks[i] = 0
          /\ logical_clock[i] = 0
          /\ queue[i] = <<>>
          /\ server_socket[i].backlog = <<>>
          /\ conn[i] = NoMessage
          /\ spc[i] = "accept"
          /\ Lines(i) = <<>>

\* C19: a step that changes a VM's clock is the step of its Event Loop that
\* begins a tick; no step of a Listener, of stop or of an external client
\* changes any clock.
C19_SingleWriter ==
    [][/\ \A i \in VMs :
             logical_clock'[i] # logical_clock[i] =>
                /\ pc[i] = "sleep"
                /\ nticks'[i] = nticks[i] + 1
       /\ (spc' # spc \/ conn' # conn \/ mpc' # mpc \/ running' # running
           \/ stop_calls' # stop_calls \/ ext_sent' # ext_sent)
             => logical_clock' = logical_clock]_vars

\* C19 witness: a VM whose Listener has enqueued a timestamp, which its
\* Event Loop has processed, has been stopped
C19_Witness ==
    \E i \in VMs :
        /\ stops[i] >= 1
        /\ spc[i] = "done"
        /\ \E k \in 1 .. Len(events[i]) : events[i][k].kind = "Receive"

\* the decimal digits of a number from 0 to 99
Decimal(v) ==
    IF v < 10 THEN <<Digits[v + 1]>>
    ELSE <<Digits[(v \div 10) + 1], Digits[(v % 10) + 1]>>

\* the message was sent by a VM and carries the clock value that the event
\* it was sent in left
CarriesEventClock(m) ==
    m.cause.vm \in VMs =>
        /\ m.data = Decimal(events[m.cause.vm][m.cause.tick].clock)
        /\ events[m.cause.vm][m.cause.tick].clock
              = events[m.cause.vm][m.cause.tick].pre + 1

\* C20: every connection a VM has made carries the decimal digits of the
\* clock value that the increment of the sending event left, every
\* timestamp enqueued from it is that value, and the value handed to every
\* send_message of an event, a Send All included, is that value.
C20_WirePayload ==
    [](\A t \in VMs :
          /\ \A x \in 1 .. Len(server_socket[t].backlog) :
                CarriesEventClock(server_socket[t].backlog[x])
          /\ CarriesEventClock(conn[t])
          /\ \A x \in 1 .. Len(queue[t]) :
                queue[t][x].cause.vm \in VMs =>
                   queue[t][x].timestamp =
                      events[queue[t][x].cause.vm][queue[t][x].cause.tick].pre + 1
          /\ pc[t] = "send" =>
                /\ current_timestamp[t] = events[t][nticks[t]].pre + 1
                /\ current_timestamp[t] = logical_clock[t])

\* C20 witness: a Send All that began with clock 1 has left the payload "2"
\* at its peer
C20_Witness ==
    \E t \in VMs : \E x \in 1 .. Len(server_socket[t].backlog) :
        /\ server_socket[t].backlog[x].cause.vm \in VMs
        /\ events[server_socket[t].backlog[x].cause.vm]
                 [server_socket[t].backlog[x].cause.tick].kind = "all"
        /\ events[server_socket[t].backlog[x].cause.vm]
                 [server_socket[t].backlog[x].cause.tick].pre = 1
        /\ server_socket[t].backlog[x].data = <<"2">>

\* C22 as stated: after stop has run on a VM its port is free, so that the
\* bind of a new VM with the same id and base port succeeds.
C22_Original ==
    \A i \in VMs : stops[i] >= 1 => PortFree(i)

\* C22 witness: stop has returned, and the Listener, still inside accept,
\* keeps the port
C22_Witness ==
    \E i \in VMs :
        /\ stops[i] >= 1
        /\ mpc = "idle"
        /\ spc[i] = "accept"
        /\ server_socket[i].closed
        /\ ~PortFree(i)

\* C23: the queue length of every line is the length the inbound queue has
\* at the step that writes the line, and so is never negative.
C23_QueueLength ==
    /\ [](\A i \in VMs : \A n \in 1 .. Len(Lines(i)) :
             Lines(i)[n].queue_length >= 0)
    /\ [][\A i \in VMs :
             Len(log_file'[i].lines) + Len(log_file'[i].buf) > Len(Lines(i))
             => /\ Len(log_file'[i].lines) + Len(log_file'[i].buf)
                      = Len(Lines(i)) + 1
                /\ queue'[i] = queue[i]
                /\ (log_file'[i].lines \o log_file'[i].buf)[Len(Lines(i)) + 1]
                      .queue_length = Len(queue[i])]_vars

\* C23 witness: a Receive line written while another timestamp was waiting
C23_Witness ==
    \E i \in VMs : \E n \in 1 .. Len(Lines(i)) :
        /\ Lines(i)[n].event_type = "Receive"
        /\ Lines(i)[n].queue_length = 1
        /\ events[i][Lines(i)[n].tick].queued = 2

C25_Fifo ==
    [][\A i \in VMs :
          /\ Len(queue'[i]) > Len(queue[i])
                => /\ Len(queue'[i]) = Len(queue[i]) + 1
                   /\ SubSeq(queue'[i], 1, Len(queue[i])) = queue[i]
                   /\ spc[i] = "recv"
          /\ Len(queue'[i]) < Len(queue[i])
                => /\ queue'[i] = Tail(queue[i])
                   /\ nticks'[i] = nticks[i] + 1
                   /\ events'[i][nticks'[i]].kind = "Receive"
                   /\ events'[i][nticks'[i]].received = Head(queue[i]).timestamp
                   /\ events'[i][nticks'[i]].cause = Head(queue[i]).cause
          /\ Len(queue'[i]) = Len(queue[i]) => queue'[i] = queue[i]]_vars

\* C25 witness: of two different timestamps in a queue the first enqueued
\* has got its Receive line, and the other one is still waiting
C25_Witness ==
    \E i \in VMs : \E n \in 1 .. Len(Lines(i)) :
        /\ Lines(i)[n].event_type = "Receive"
        /\ events[i][Lines(i)[n].tick].queued = 2
        /\ Len(queue[i]) = 1
        /\ queue[i][1].timestamp # events[i][Lines(i)[n].tick].received
        /\ nticks[i] = Lines(i)[n].tick

\* C26: at most one thread at a time is between the acquisition of log_lock
\* and its release inside log_event of a VM: the thread named by the lock;
\* and every line of the log is one complete entry, written by one step of
\* one thread.
C26_Serialized ==
    /\ [](\A i \in VMs :
             /\ ~(pc[i] = "log_write" /\ mpc = "m_log_write" /\ mvm = i)
             /\ pc[i] = "log_write" <=> log_lock[i] = "run"
             /\ (mpc = "m_log_write" /\ mvm = i) <=> log_lock[i] = "main"
             /\ \A n \in 1 .. Len(Lines(i)) :
                   /\ DOMAIN Lines(i)[n] = {"event_type", "logical_clock",
                                            "queue_length", "details", "tick"}
                   /\ Lines(i)[n].event_type
                         \in {"Receive", "Internal", "Send", "Send All",
                              "Send Error"})
    /\ [][\A i \in VMs :
             Len(log_file'[i].lines) + Len(log_file'[i].buf) > Len(Lines(i))
             => /\ log_lock[i] # None
                /\ log_lock'[i] = None
                /\ Len(log_file'[i].lines) + Len(log_file'[i].buf)
                      = Len(Lines(i)) + 1
                /\ SubSeq(log_file'[i].lines \o log_file'[i].buf,
                          1, Len(Lines(i))) = Lines(i)]_vars

\* C26 witness: the main thread is inside the write section of a VM's
\* log_event, and the Event Loop of that VM waits for the lock
C26_Witness ==
    \E i \in VMs :
        /\ mpc = "m_log_write"
        /\ mvm = i
        /\ log_lock[i] = "main"
        /\ pc[i] = "log_enter"
        /\ ~log_file[i].closed
        /\ Len(Lines(i)) >= 1

\* the lines VM i has written in its k-th event
EventLines(i, k) == {n \in 1 .. Len(Lines(i)) : Lines(i)[n].tick = k}

\* C27 as stated: every finished event has exactly one line in the log,
\* also when a send of the event has failed.
C27_Original ==
    \A i \in VMs : \A k \in 1 .. Len(events[i]) :
        EventDone(i, k) => Cardinality(EventLines(i, k)) = 1

\* C27 as amended: every event has at most one line of its own type, and a
\* finished event has exactly one line of its own type and one Send Error
\* line for each of its sends that failed, provided the log is still open;
\* lines due after stop has closed the log are missing.
C27_EntriesPerEvent ==
    [](\A i \in VMs : \A k \in 1 .. Len(events[i]) :
          /\ Cardinality(EventLines(i, k) \ EntriesOf(i, k, "Send Error")) <= 1
          /\ Cardinality(EntriesOf(i, k, "Send Error"))
                <= Len(events[i][k].failed)
          /\ (EventDone(i, k) /\ ~log_file[i].closed)
                => /\ Cardinality(EventLines(i, k))
                         = 1 + Len(events[i][k].failed)
                   /\ Cardinality(EntriesOf(i, k, "Send Error"))
                         = Len(events[i][k].failed))

\* C27 witness: a finished Send event whose send failed has two lines, a
\* Send Error line and a Send line
C27_Witness ==
    \E i \in VMs : \E k \in 1 .. Len(events[i]) :
        /\ EventDone(i, k)
        /\ events[i][k].kind \in {"peer0", "peer1"}
        /\ Len(events[i][k].failed) = 1
        /\ Cardinality(EventLines(i, k)) = 2
        /\ EntriesOf(i, k, "Send") # {}
        /\ EntriesOf(i, k, "Send Error") # {}

\* C28 as stated: every timestamp in an inbound queue is a non-negative
\* integer.
C28_Original ==
    \A i \in VMs : \A x \in 1 .. Len(queue[i]) : queue[i][x].timestamp >= 0

\* C21 as stated: when the threads keep being scheduled, a VM whose running
\* flag has been cleared gets to the state where its Event Loop and its
\* Listener have both left their loops.
C21_Original ==
    \A i \in VMs : (~running[i]) ~> (pc[i] = "done" /\ spc[i] = "done")

\* C21 witness: a stopped VM whose Event Loop has left its loop, and whose
\* Listener waits in recv on a connection the client holds open
C21_Witness ==
    \E i \in VMs :
        /\ ~running[i]
        /\ stops[i] >= 1
        /\ pc[i] = "done"
        /\ spc[i] = "recv"
        /\ conn[i].client = "holds"

\* C29 as stated: when the Listener is at its accept, or has left its loop,
\* the connection it accepted before is closed.
C29_Original ==
    \A i \in VMs : spc[i] \in {"accept", "done"} => conn[i] = NoMessage

\* C29 witness: the Listener is back at its accept with the connection whose
\* recv has raised still open
C29_Witness ==
    \E i \in VMs :
        /\ running[i]
        /\ spc[i] = "accept"
        /\ conn[i].client = "resets"

\* C30: with the thresholds p, p + s and p + 2s, where s = (1 - p) / 3, a
\* draw r selects Internal if r < p, the first peer if p <= r < p + s, the
\* second peer if p + s <= r < p + 2s, and Send All if r >= p + 2s: exactly
\* one branch, a draw on a threshold going to the later one, and with p = 0
\* never Internal.
C30_Selection ==
    [](draw.outcome # None =>
          LET r == draw.r
              t1 == 3 * draw.p
              t2 == 3 * draw.p + (ProbDen - draw.p)
              t3 == 3 * draw.p + 2 * (ProbDen - draw.p)
          IN /\ draw.outcome \in {"internal", "peer0", "peer1", "all"}
             /\ draw.outcome = "internal" <=> r < t1
             /\ draw.outcome = "peer0" <=> (t1 <= r /\ r < t2)
             /\ draw.outcome = "peer1" <=> (t2 <= r /\ r < t3)
             /\ draw.outcome = "all" <=> t3 <= r
             /\ draw.p = 0 => draw.outcome # "internal"
             /\ r = t1 => draw.outcome = "peer0"
             /\ r = t2 => draw.outcome = "peer1"
             /\ r = t3 => draw.outcome = "all")

\* C30 witness: a draw equal to a positive p_internal has selected the first
\* peer
C30_Witness ==
    /\ draw.p > 0
    /\ draw.r = 3 * draw.p
    /\ draw.outcome = "peer0"

\* C31: every tick of an Event Loop changes the clock exactly once, in the
\* step that begins it, and raises it by at least 1; no other step changes
\* it; so a clock is at least the number of ticks of its VM.
C31_OneEventPerTick ==
    /\ [](\A i \in VMs :
             /\ Len(events[i]) = nticks[i]
             /\ logical_clock[i] >= nticks[i]
             /\ \A k \in 1 .. Len(events[i]) :
                   /\ events[i][k].tick = k
                   /\ events[i][k].clock >= events[i][k].pre + 1
                   /\ k > 1 => events[i][k].pre = events[i][k - 1].clock)
    /\ [][\A i \in VMs :
             /\ nticks'[i] # nticks[i]
                   => /\ nticks'[i] = nticks[i] + 1
                      /\ logical_clock'[i] >= logical_clock[i] + 1
                      /\ events'[i][nticks'[i]].pre = logical_clock[i]
                      /\ events'[i][nticks'[i]].clock = logical_clock'[i]
             /\ nticks'[i] = nticks[i]
                   => logical_clock'[i] = logical_clock[i]]_vars

\* C31 witness: a VM has finished two ticks, a Receive that raised the clock
\* by more than 1 and a local event
C31_Witness ==
    \E i \in VMs :
        /\ nticks[i] = 2
        /\ EventDone(i, 1)
        /\ EventDone(i, 2)
        /\ events[i][1].kind = "Receive"
        /\ events[i][2].kind # "Receive"
        /\ logical_clock[i] > 3

\* C32: an Event Loop begins at most one tick while running is False, and
\* none once it has ended a tick, or its loop, with running False; the clock
\* changes and the list of peers to send to is set only in the step that
\* begins a tick, so at most one clock change and one send event follow the
\* clearing of the flag.
C32_Residual ==
    /\ [](\A i \in VMs : late[i] <= 1 /\ (late[i] = 1 => ~running[i]))
    /\ [][\A i \in VMs :
             /\ (~running[i] /\ pc[i] # "sleep")
                   => (nticks'[i] = nticks[i] /\ pc'[i] # "sleep")
             /\ (logical_clock'[i] # logical_clock[i]
                 \/ (todo'[i] # todo[i] /\ todo'[i] # Tail(todo[i])))
                   => (pc[i] = "sleep" /\ nticks'[i] = nticks[i] + 1)
             /\ Len(server_socket'[i].backlog) > Len(server_socket[i].backlog)
                   => \A j \in VMs :
                         server_socket'[i].backlog
                            [Len(server_socket'[i].backlog)].cause.vm = j
                         => (pc[j] = "send" /\ nticks'[j] = nticks[j])]_vars

\* C32 witness: an Event Loop has ended after a tick begun while running was
\* False, in which it has sent a message
C32_Witness ==
    \E i \in VMs :
        /\ late[i] = 1
        /\ pc[i] = "done"
        /\ events[i][nticks[i]].sent # <<>>

\* the message was sent in the k-th event of VM i
FromEvent(m, i, k) == m.cause.vm = i /\ m.cause.tick = k

\* the copies at VM t of the message of the k-th event of VM i: waiting to
\* be accepted, being read, in the queue, or made a Receive event
Copies(t, i, k) ==
    Cardinality({x \in 1 .. Len(server_socket[t].backlog) :
                    FromEvent(server_socket[t].backlog[x], i, k)})
    + (IF FromEvent(conn[t], i, k) THEN 1 ELSE 0)
    + Cardinality({x \in 1 .. Len(queue[t]) : FromEvent(queue[t][x], i, k)})
    + Cardinality({u \in 1 .. Len(events[t]) :
                      /\ events[t][u].kind = "Receive"
                      /\ FromEvent(events[t][u], i, k)})

\* C33: of the message an event of VM i sends there is at most one copy at
\* the VM it was sent to, be it in flight, queued or received, and none at
\* any other VM; a queued or received timestamp that a VM has sent is the
\* value its event passed to send_message.
C33_NoDuplication ==
    [](\A t \in VMs :
          /\ \A i \in VMs : \A k \in 1 .. Len(events[i]) :
                Copies(t, i, k)
                   <= Cardinality({x \in 1 .. Len(events[i][k].sent) :
                                      events[i][k].sent[x] = t})
          /\ \A x \in 1 .. Len(queue[t]) :
                queue[t][x].cause.vm \in VMs
                   => queue[t][x].timestamp
                         = events[queue[t][x].cause.vm]
                                 [queue[t][x].cause.tick].clock
          /\ \A u \in 1 .. Len(events[t]) :
                (events[t][u].kind = "Receive" /\ events[t][u].cause.vm \in VMs)
                   => events[t][u].received
                         = events[events[t][u].cause.vm]
                                 [events[t][u].cause.tick].clock)

\* C33 witness: the message of a Send All has been received by the peer
\* that listens, and no other copy of it is left
C33_Witness ==
    \E t \in VMs : \E i \in VMs : \E k \in 1 .. Len(events[i]) :
        /\ events[i][k].kind = "all"
        /\ Len(events[i][k].failed) = 1
        /\ Copies(t, i, k) = 1
        /\ \E u \in 1 .. Len(events[t]) :
              /\ FromEvent(events[t][u], i, k)
              /\ EventDone(t, u)

\* C34: a timestamp that VM i has sent, be it in flight or in a queue, is at
\* least 1 and at most the clock VM i has now.
C34_NotFromFuture ==
    [](\A t \in VMs :
          /\ \A x \in 1 .. Len(server_socket[t].backlog) :
                server_socket[t].backlog[x].cause.vm \in VMs
                   => /\ ParseInt(server_socket[t].backlog[x].data).ok
                      /\ ParseInt(server_socket[t].backlog[x].data).val >= 1
                      /\ ParseInt(server_socket[t].backlog[x].data).val
                            <= logical_clock[server_socket[t].backlog[x]
                                                .cause.vm]
          /\ conn[t].cause.vm \in VMs
                => /\ ParseInt(conn[t].data).val >= 1
                   /\ ParseInt(conn[t].data).val
                         <= logical_clock[conn[t].cause.vm]
          /\ \A x \in 1 .. Len(queue[t]) :
                queue[t][x].cause.vm \in VMs
                   => /\ queue[t][x].timestamp >= 1
                      /\ queue[t][x].timestamp
                            <= logical_clock[queue[t][x].cause.vm])

\* C34 witness: a queued timestamp that its sender's clock has left behind,
\* and one in flight equal to its sender's clock
C34_Witness ==
    \E t \in VMs :
        /\ \E x \in 1 .. Len(queue[t]) :
              /\ queue[t][x].cause.vm \in VMs
              /\ queue[t][x].timestamp < logical_clock[queue[t][x].cause.vm]
        /\ \E x \in 1 .. Len(server_socket[t].backlog) :
              /\ server_socket[t].backlog[x].cause.vm \in VMs
              /\ ParseInt(server_socket[t].backlog[x].data).val
                    = logical_clock[server_socket[t].backlog[x].cause.vm]

OwnLines(i, k) == EventLines(i, k) \ EntriesOf(i, k, "Send Error")

\* C37 as stated: a finished event of which a send has failed has its Send
\* or Send All line in the log, after one Send Error line with the same
\* clock for each failed send.
C37_Original ==
    \A i \in VMs : \A k \in 1 .. Len(events[i]) :
        (EventDone(i, k) /\ events[i][k].failed # <<>>)
           => \E n \in OwnLines(i, k) :
                 /\ Lines(i)[n].event_type \in {"Send", "Send All"}
                 /\ Cardinality({m \in EntriesOf(i, k, "Send Error") :
                                    /\ m < n
                                    /\ Lines(i)[m].logical_clock
                                          = Lines(i)[n].logical_clock})
                       = Len(events[i][k].failed)

\* C37 as amended: the Send or Send All line of an event of which sends have
\* failed comes after one Send Error line for each failed send, all with the
\* clock value of the event; a finished event has that line if the log is
\* still open, while an event during which stop closes the log is left
\* with its Send Error lines only, or with no line.
C37_FailedSendLogged ==
    [](\A i \in VMs : \A k \in 1 .. Len(events[i]) :
          events[i][k].failed # <<>> =>
             /\ \A n \in OwnLines(i, k) :
                   /\ Lines(i)[n].event_type
                         = (IF events[i][k].kind = "all"
                            THEN "Send All" ELSE "Send")
                   /\ Lines(i)[n].logical_clock = events[i][k].clock
                   /\ Cardinality(EntriesOf(i, k, "Send Error"))
                         = Len(events[i][k].failed)
                   /\ \A m \in EntriesOf(i, k, "Send Error") :
                         /\ m < n
                         /\ Lines(i)[m].logical_clock = events[i][k].clock
             /\ (EventDone(i, k) /\ ~log_file[i].closed)
                   => OwnLines(i, k) # {})

\* C37 witness: a Send All both sends of which have failed has two Send
\* Error lines and then its Send All line
C37_Witness ==
    \E i \in VMs : \E k \in 1 .. Len(events[i]) :
        /\ EventDone(i, k)
        /\ events[i][k].kind = "all"
        /\ Len(events[i][k].failed) = 2
        /\ Cardinality(EntriesOf(i, k, "Send Error")) = 2
        /\ EntriesOf(i, k, "Send All") # {}

Live == {x \in Instances : Instance(x).running}

\* C39 as stated: no two VMs that are running at the same time have the same
\* log file open, also when they belong to different runs of run_simulation
\* that main has started together.
C39_Original ==
    \A x \in Live : \A y \in Live :
        x # y => Instance(x).log_file.name # Instance(y).log_file.name

\* C39 witness: two running VMs with the same id, of two runs, have both
\* written to the one file vm_<id>.log
C39_Witness ==
    \E x \in Live : \E y \in Live :
        /\ x[1] # y[1]
        /\ Instance(x).vm_id = Instance(y).vm_id
        /\ Instance(x).base_port # Instance(y).base_port
        /\ Instance(x).log_file.name = Instance(y).log_file.name
        /\ {<<x[1], Instance(x).vm_id>>, <<y[1], Instance(y).vm_id>>}
              \subseteq cwd[Instance(x).log_file.name]

\* the k-th event of VM i has sent its timestamp to VM t without an error
SentTo(t, i, k) ==
    /\ k <= Len(events[i])
    /\ \E x \in 1 .. Len(events[i][k].sent) : events[i][k].sent[x] = t

\* the message of the k-th event of VM i waits in the queue of VM t
Enqueued(t, i, k) ==
    \E x \in 1 .. Len(queue[t]) : FromEvent(queue[t][x], i, k)

\* VM t has logged the Receive event that took the message of the k-th event
\* of VM i from its queue
ReceiveLogged(t, i, k) ==
    \E u \in 1 .. Len(events[t]) :
        /\ events[t][u].kind = "Receive"
        /\ FromEvent(events[t][u], i, k)
        /\ EntriesOf(t, u, "Receive") # {}

\* C36 as stated: when the threads keep being scheduled, a timestamp that a
\* VM has sent without an error to a VM that is running gets into the queue
\* of that VM and is logged as a Receive by its Event Loop, unless the VM is
\* stopped first (or the timestamp waits in the queue when the ticks that
\* are explored have been used up).
C36_Original ==
    \A t \in VMs : \A i \in VMs \ {t} : \A k \in 1 .. MaxActivity :
        (SentTo(t, i, k) /\ running[t])
           ~> \/ ReceiveLogged(t, i, k)
              \/ ~running[t]
              \/ (Enqueued(t, i, k) /\ Activity >= MaxActivity)

\* C36 witness: a timestamp sent without an error waits to be accepted by a
\* running VM whose Listener is in recv on a connection the client holds open
C36_Witness ==
    \E t \in VMs : \E i \in VMs : \E k \in 1 .. MaxActivity :
        /\ SentTo(t, i, k)
        /\ running[t]
        /\ spc[t] = "recv"
        /\ conn[t].client = "holds"
        /\ \E x \in 1 .. Len(server_socket[t].backlog) :
              FromEvent(server_socket[t].backlog[x], i, k)
        /\ pc[i] = "sleep"

====
